---- MODULE Spec2Model ----
(***************************************************************************)
(* cp-notification-server: the checkpointed event-ingestion loop           *)
(* (services/subgraphService.ts).                                          *)
(*                                                                         *)
(* pollAndProcess is an async function; every `await` is a point where the *)
(* Node event loop may run another callback.  One action of this model is  *)
(* one run-to-completion segment: from the resumption of an await (or from *)
(* the entry of a callback) to the next await or to the end of the         *)
(* function, `finally` block included.                                     *)
(*                                                                         *)
(* The module-level variables of the service are lastProcessedTimestamp    *)
(* and isPolling; the durable checkpoint is the SystemState document with  *)
(* key "lastProcessedTimestamp".  startPolling is reached only when        *)
(* initializeSubgraphService returned true, so `client` is non-null in     *)
(* every state of the model and the `!client` guards never fire.           *)
(*                                                                         *)
(* The deadline scheduler (services/schedulerService.ts) is modelled the   *)
(* same way under SchedSpec: one action per run-to-completion segment of   *)
(* checkGoalDeadlines and checkCircleDeadlines.                            *)
(***************************************************************************)
EXTENDS Integers, Sequences, FiniteSets, Bags, TLC

\* ----------------------------------------------------------------- bounds
MaxTime   == 3    \* wall clock / ledger head run over 1..MaxTime
MaxEvents == 2    \* events ever appended to the ledger
MaxActs   == 2    \* pollAndProcess invocations alive (running or scheduled)
MaxGoals  == 2    \* active goals the subgraph reports
MaxTicks  == 3    \* scheduler timer callbacks in a behaviour
MaxResets == 1    \* weekly registry cleanups in a behaviour
MaxLive   == 1    \* evaluator runs still live when a timer callback fires
MaxUsers  == 2    \* accounts of the push dispatcher model
MaxRecipients == 2  \* longest address list of a sendNotification call
MaxMembers == 3   \* accounts of the fan-out model
MaxBatch  == 2    \* events in the batch a handler is given
MaxCalls  == 2    \* sendNotification calls in a behaviour

\* ------------------------------------------------------ program constants
MaxRetries == 3   \* `if (retryCount < 3)`

\* The variant batches in the order pollAndProcess hands them to handlers.
VariantOrder ==
    << "circleJoineds", "payoutDistributeds", "contributionMades",
       "collateralWithdrawns", "memberInviteds", "votingInitiateds",
       "voteExecuteds", "memberForfeiteds", "reputationIncreases",
       "reputationDecreases", "categoryChanges", "referralRewards" >>

\* Handlers that render an amount with formatAmount (BigInt(amountWei)
\* raises on a string that is not an integer literal).
AmountVariants ==
    { "payoutDistributeds", "contributionMades", "collateralWithdrawns",
      "memberForfeiteds", "referralRewards" }

\* Handlers whose loop body is wrapped in a per-event try/catch.
CaughtVariants == { "contributionMades", "collateralWithdrawns" }

\* Handlers that resolve the circle's members and send a collection-wide
\* notification.
BroadcastVariants ==
    { "circleJoineds", "payoutDistributeds", "contributionMades",
      "collateralWithdrawns", "votingInitiateds", "voteExecuteds",
      "memberForfeiteds" }

\* Variants the model's ledger emits: a broadcast-only handler that cannot
\* raise, and a later one in VariantOrder that raises on a bad amount.
EmittedVariants == { "circleJoineds", "payoutDistributeds" }

\* Outcome of the two lookups behind a collection-wide broadcast.
BroadcastOutcomes == { "ok", "resolveFailed", "lookupFailed" }

VARIABLES
    started,                 \* startPolling has installed the interval
    now,                     \* wall clock = timestamp of the ledger head
    ledger,                  \* sequence of [ts, variant, badAmount]
    sourceUp,                \* the event source answers queries
    lastProcessedTimestamp,  \* in-memory cursor, 0 = unset
    isPolling,               \* in-flight flag
    persisted,               \* SystemState value, 0 = no document
    acts,                    \* bag of suspended pollAndProcess activations
    timers,                  \* bag of pending setTimeout retry callbacks
    handed,                  \* events handed to their handler so far
    bcastSent,               \* events whose broadcast was dispatched
    failedAt,                \* cursor when a handler last raised, 0 once
                             \* a later poll has queried the source
    outageCursor             \* cursor when the source last went down

vars == << started, now, ledger, sourceUp, lastProcessedTimestamp, isPolling,
           persisted, acts, timers, handed, bcastSent, failedAt,
           outageCursor >>

\* ---------------------------------------------- scheduler state (SchedSpec)
VARIABLES
    sentNotifications,       \* the Set of notification keys already sent
    goals,                   \* what getActiveGoals returns
    circles,                 \* what the active-circles query returns
    runs,                    \* bag of suspended evaluator activations
    dispatched,              \* per key: sendNotification calls that returned
                             \* since the last cleanup
    lastOutcome,             \* how the last sendNotification statement ended:
                             \* sent, noneSent, or raised and then caught or
                             \* unhandled
    ticks,                   \* timer callbacks fired so far
    resets,                  \* cleanups so far
    overlap,                 \* a callback fired while an earlier run was live
    fullScan                 \* a goal run begun since the last cleanup went
                             \* through every goal

schedVars == << sentNotifications, goals, circles, runs, dispatched,
                lastOutcome, ticks, resets, overlap, fullScan >>

\* The scheduler before startScheduler, with nothing to evaluate.
SchedIdle ==
    /\ sentNotifications = {}
    /\ goals = << >>
    /\ circles = << >>
    /\ runs = EmptyBag
    /\ dispatched = << >>
    /\ lastOutcome = "none"
    /\ ticks = 0
    /\ resets = 0
    /\ overlap = FALSE
    /\ fullScan = FALSE

\* ------------------------------------------- push dispatcher state (PushSpec)
VARIABLES
    isConfigured,            \* initializePushService has set the VAPID details
    store,                   \* the Subscription collection, per user
    userAddresses,           \* argument of the sendNotification call
    payloadType,             \* payload.type of the call
    sendPc,                  \* where the sendNotification call is
    index,                   \* position of the for loop in userAddresses
    subscriptions,           \* what getMany returned to the call
    results,                 \* { sent, failed, errors } of the call
    transportCalls,          \* positions for which webpush.sendNotification ran
    calls,                   \* sendNotification calls begun so far
    removals,                \* users whose Subscription.deleteOne is in flight
    gone                     \* per user: the call in which the transport
                             \* answered 404 or 410 for it, 0 if none did

pushVars == << isConfigured, store, userAddresses, payloadType, sendPc, index,
               subscriptions, results, transportCalls, calls, removals, gone >>

\* The push service with no subscription stored and no call in progress.
PushIdle ==
    /\ isConfigured = FALSE
    /\ store = << >>
    /\ userAddresses = << >>
    /\ payloadType = "none"
    /\ sendPc = "idle"
    /\ index = 0
    /\ subscriptions = {}
    /\ results = [ sent |-> 0, failed |-> 0, errors |-> << >> ]
    /\ transportCalls = << >>
    /\ calls = 0
    /\ removals = {}
    /\ gone = << >>

\* ------------------------------------------------ fan-out state (FanSpec)
VARIABLES
    circleJoineds,           \* user ids of the circle's circleJoineds rows
    circleCreator,           \* creator id the ledger reports for the circle
    event,                   \* the event the handler is processing
    fanPc,                   \* where the handler is
    resolved,                \* how the getCircleMembers request ended
    members,                 \* what getCircleMembers returned
    sent,                    \* sendNotification calls made for this event
    taken,                   \* events of the batch the loop has taken
    skipped,                 \* events of the batch skipped by the guard
    simEventType,            \* eventType of the POST /simulate-event request
    simStatus                \* status of its response, 0 until it is sent

fanVars == << circleJoineds, circleCreator, event, fanPc, resolved, members,
              sent, taken, skipped, simEventType, simStatus >>

\* "No id": a missing creator, or an event whose user id is missing.
NoAddress == [ id |-> 0, upper |-> FALSE ]

\* No circle on the ledger and no event being handled.
FanIdle ==
    /\ circleJoineds = {}
    /\ circleCreator = NoAddress
    /\ event = [ kind |-> "none", user |-> NoAddress ]
    /\ fanPc = "idle"
    /\ resolved = "none"
    /\ members = {}
    /\ sent = << >>
    /\ taken = 0
    /\ skipped = 0
    /\ simEventType = "none"
    /\ simStatus = 0

\* ------------------------------------- reminder evaluation state (EvalSpec)
VARIABLES
    evalGoal,                \* the goal row checkGoalDeadlines is looking at
    evalCircle,              \* the circle checkCircleDeadlines is looking at
    evalPc,                  \* which evaluator has run on its row
    reminders,               \* the dispatches the evaluator asked for
    evalAmount,              \* the amount handed to formatAmount
    formatted                \* what formatAmount returned

evalVars == << evalGoal, evalCircle, evalPc, reminders, evalAmount,
               formatted >>

\* No row under evaluation.
NoGoal == [ currentAmount |-> 0, goalAmount |-> 0, deadline |-> 0 ]

NoCircle == [ state |-> 0, nextDeadline |-> 0, currentRound |-> 0,
              joined |-> {}, creator |-> 0, contributions |-> {} ]

NoAmount == [ whole |-> << >>, cents |-> << >>, rest |-> << >>,
              amountWei |-> << >> ]

NoText == [ whole |-> << >>, fractionStr |-> << >> ]

EvalIdle ==
    /\ evalGoal = NoGoal
    /\ evalCircle = NoCircle
    /\ evalPc = "idle"
    /\ reminders = {}
    /\ evalAmount = NoAmount
    /\ formatted = NoText

\* State of the components other than the polling loop.
nonPollVars == << schedVars, pushVars, fanVars, evalVars >>

NonPollIdle == SchedIdle /\ PushIdle /\ FanIdle /\ EvalIdle

\* An activation is the frame of one pollAndProcess call suspended at an
\* await: where it waits, its retryCount argument, and its locals.
Frame(pc, retryCount, chainCursor, chainStored) ==
    [ pc |-> pc, retryCount |-> retryCount, qcursor |-> 0, events |-> {},
      latest |-> 0, saveVal |-> 0, chainCursor |-> chainCursor,
      chainStored |-> chainStored ]

InFlight == BagToSet(acts)

Replace(bag, old, new) == (bag (-) SetToBag({ old })) (+) SetToBag({ new })

Pow2(n) == IF n = 0 THEN 1 ELSE IF n = 1 THEN 2 ELSE IF n = 2 THEN 4 ELSE 8

\* `const delay = Math.pow(2, retryCount) * 1000`
RetryDelay(retryCount) == Pow2(retryCount) * 1000

\* The retry test with the bound included.
ShouldRetry_Inclusive(retryCount) == retryCount <= MaxRetries

\* `if (retryCount < 3)`
ShouldRetry(retryCount) == retryCount < MaxRetries

\* A `finally` that leaves the flag as the catch block set it.
FinallyFlag_Keep(flagLeftByCatch) == flagLeftByCatch

\* `finally { isPolling = false; }` runs after the catch block's `return`
\* as well, so the flag the catch block leaves set is cleared at once.
FinallyFlag(flagLeftByCatch) == FALSE

\* `if (events.latestTimestamp > lastProcessedTimestamp)
\*      lastProcessedTimestamp = events.latestTimestamp`
NextCursor(cursor, latest) == IF latest > cursor THEN latest ELSE cursor

\* FirstRunCursor without the load of the stored cursor.
FirstRunCursor_IgnoreStored(stored, clock) == clock

\* `state && typeof state.value === "number" && state.value > 0
\*      ? state.value : Math.floor(Date.now() / 1000)`
FirstRunCursor(stored, clock) == IF stored > 0 THEN stored ELSE clock

\* `where: { transaction_: { blockTimestamp_gt: $lastTimestamp } }`
EventsSince(cursor) == { i \in DOMAIN ledger : ledger[i].ts > cursor }

\* `latestTimestamp: data._meta?.block?.timestamp || lastProcessedTimestamp`
\* meta = 0 stands for a response without _meta.block.timestamp.
LatestOf(meta, cursor) == IF meta # 0 THEN meta ELSE cursor

\* The first variant in VariantOrder with a fetched event left to process.
NextVariant(evs) ==
    LET idx == CHOOSE k \in 1 .. Len(VariantOrder) :
                  /\ \E i \in evs : ledger[i].variant = VariantOrder[k]
                  /\ \A j \in 1 .. (k - 1) :
                        \A i \in evs : ledger[i].variant # VariantOrder[j]
    IN  VariantOrder[idx]

BatchOf(evs) == { i \in evs : ledger[i].variant = NextVariant(evs) }

\* A handler raises on an event whose amount formatAmount cannot parse,
\* unless its loop body has its own try/catch.
Throws(i) ==
    /\ ledger[i].badAmount
    /\ ledger[i].variant \in AmountVariants
    /\ ledger[i].variant \notin CaughtVariants

\* The handler's `for (const event of events)` stops at the first event
\* that raises; the batch is in ascending ledger order.
Thrower(batch) ==
    IF \E i \in batch : Throws(i)
    THEN CHOOSE i \in batch : Throws(i) /\ \A j \in batch : Throws(j) => i <= j
    ELSE 0

Reached(batch) ==
    IF Thrower(batch) = 0 THEN batch ELSE { i \in batch : i <= Thrower(batch) }

\* Events of the batch that get as far as the broadcast.
Broadcasting(batch) ==
    { i \in Reached(batch) :
        /\ ledger[i].variant \in BroadcastVariants
        /\ ~ (ledger[i].badAmount /\ ledger[i].variant \in AmountVariants) }

TypeOK ==
    /\ started \in BOOLEAN
    /\ now \in 1 .. MaxTime
    /\ Len(ledger) <= MaxEvents
    /\ sourceUp \in BOOLEAN
    /\ lastProcessedTimestamp \in 0 .. MaxTime
    /\ isPolling \in BOOLEAN
    /\ persisted \in 0 .. MaxTime
    /\ \A a \in InFlight :
          a.pc \in { "findOne", "initSave", "query", "handlers", "save" }
    /\ BagCardinality(acts) + BagCardinality(timers) <= MaxActs
    /\ handed \subseteq DOMAIN ledger
    /\ bcastSent \subseteq handed
    /\ failedAt \in 0 .. MaxTime
    /\ outageCursor \in 0 .. MaxTime

\* State after module load and initializeSubgraphService: cursor unset,
\* flag clear, no timers.  The checkpoint store may hold a cursor written
\* by an earlier run of the process.
Init ==
    /\ started = FALSE
    /\ now = 1
    /\ ledger = << >>
    /\ sourceUp = TRUE
    /\ lastProcessedTimestamp = 0
    /\ isPolling = FALSE
    /\ persisted \in { 0, 1 }
    /\ acts = EmptyBag
    /\ timers = EmptyBag
    /\ handed = {}
    /\ bcastSent = {}
    /\ failedAt = 0
    /\ outageCursor = 0
    /\ NonPollIdle

\* ------------------------------------------------------------ environment
envUnch == << started, lastProcessedTimestamp, isPolling, persisted, acts,
              timers, handed, bcastSent, failedAt >>

\* A new block: the ledger head (and the clock) advance, without an event.
NewBlock ==
    /\ now < MaxTime
    /\ now' = now + 1
    /\ UNCHANGED << ledger, sourceUp, outageCursor >>
    /\ UNCHANGED envUnch

\* A new block carrying one event.
EmitEvent(variant, bad) ==
    /\ now < MaxTime
    /\ Len(ledger) < MaxEvents
    /\ bad => variant \in AmountVariants
    /\ now' = now + 1
    /\ ledger' = Append(ledger,
                   [ ts |-> now + 1, variant |-> variant, badAmount |-> bad ])
    /\ UNCHANGED << sourceUp, outageCursor >>
    /\ UNCHANGED envUnch

SourceDown ==
    /\ sourceUp
    /\ sourceUp' = FALSE
    /\ outageCursor' = lastProcessedTimestamp
    /\ UNCHANGED << now, ledger >>
    /\ UNCHANGED envUnch

SourceRecovers ==
    /\ ~ sourceUp
    /\ sourceUp' = TRUE
    /\ UNCHANGED << now, ledger, outageCursor >>
    /\ UNCHANGED envUnch

\* ------------------------------------------------------- pollAndProcess
\* Entry of pollAndProcess(retryCount) with the flag as the caller left it:
\* `if (!client || isPolling) return; isPolling = true;` then up to the
\* first await (SystemState.findOne on the first run, client.request else).
\* chainCursor and chainStored remember the two cursors as they were when
\* the chain of attempts this invocation belongs to began.
Invoke(retryCount, flag, chainCursor, chainStored) ==
    IF flag
    THEN /\ isPolling' = flag
         /\ acts' = acts
         /\ failedAt' = failedAt
    ELSE /\ isPolling' = TRUE
         /\ acts' = acts (+) SetToBag({
                IF lastProcessedTimestamp = 0
                THEN Frame("findOne", retryCount, chainCursor, chainStored)
                ELSE [ Frame("query", retryCount, chainCursor, chainStored)
                         EXCEPT !.qcursor = lastProcessedTimestamp ] })
         /\ failedAt' = IF lastProcessedTimestamp = 0 THEN failedAt ELSE 0

\* `setTimeout(() => {...}, delay)` of the catch block.
RetryTimer(a) ==
    [ retryCount  |-> a.retryCount + 1,
      delay       |-> RetryDelay(a.retryCount),
      chainCursor |-> a.chainCursor,
      chainStored |-> a.chainStored ]

\* `catch` followed by `finally`: schedule the retry when the budget
\* allows, then clear the flag; the activation ends.
CatchAndFinally(a) ==
    /\ timers' = IF ShouldRetry(a.retryCount)
                 THEN timers (+) SetToBag({ RetryTimer(a) })
                 ELSE timers
    /\ isPolling' = FinallyFlag(ShouldRetry(a.retryCount))
    /\ acts' = acts (-) SetToBag({ a })

\* Normal completion of the try block followed by `finally`.
Finish(a) ==
    /\ isPolling' = FALSE
    /\ acts' = acts (-) SetToBag({ a })
    /\ UNCHANGED timers

\* The checkpoint update at the end of the try block, up to its await.
Checkpoint(a, latest) ==
    /\ lastProcessedTimestamp' = NextCursor(lastProcessedTimestamp, latest)
    /\ IF latest > lastProcessedTimestamp
       THEN /\ acts' = Replace(acts, a,
                     [ a EXCEPT !.pc = "save", !.qcursor = 0, !.events = {},
                                !.latest = 0,
                                !.saveVal = NextCursor(lastProcessedTimestamp, latest) ])
            /\ UNCHANGED << isPolling, timers >>
       ELSE Finish(a)

\* startPolling: setInterval(pollAndProcess, intervalMs); pollAndProcess().
startPolling ==
    /\ ~ started
    /\ started' = TRUE
    /\ Invoke(0, isPolling, lastProcessedTimestamp, persisted)
    /\ UNCHANGED << now, ledger, sourceUp, lastProcessedTimestamp, persisted,
                    timers, handed, bcastSent, outageCursor >>

\* The interval fires while a run holds the flag: the invocation returns
\* at its first line.
TickDropped ==
    /\ started
    /\ isPolling
    /\ Invoke(0, isPolling, lastProcessedTimestamp, persisted)
    /\ UNCHANGED << started, now, ledger, sourceUp, lastProcessedTimestamp,
                    persisted, timers, handed, bcastSent, outageCursor >>

\* The interval fires with the flag clear.
TickStarts ==
    /\ started
    /\ ~ isPolling
    /\ BagCardinality(acts) + BagCardinality(timers) < MaxActs
    /\ Invoke(0, isPolling, lastProcessedTimestamp, persisted)
    /\ UNCHANGED << started, now, ledger, sourceUp, lastProcessedTimestamp,
                    persisted, timers, handed, bcastSent, outageCursor >>

\* A retry callback fires:
\* `setTimeout(() => { isPolling = false; pollAndProcess(retryCount + 1); })`.
RetryFires(t) ==
    /\ BagIn(t, timers)
    /\ Invoke(t.retryCount, FALSE, t.chainCursor, t.chainStored)
    /\ timers' = timers (-) SetToBag({ t })
    /\ UNCHANGED << started, now, ledger, sourceUp, lastProcessedTimestamp,
                    persisted, handed, bcastSent, outageCursor >>

\* First run: SystemState.findOne resolves.
FindOneResolves(a) ==
    /\ a.pc = "findOne"
    /\ lastProcessedTimestamp' = FirstRunCursor(persisted, now)
    /\ IF persisted > 0
       THEN Finish(a)
       ELSE /\ acts' = Replace(acts, a,
                     [ a EXCEPT !.pc = "initSave",
                                !.saveVal = FirstRunCursor(persisted, now) ])
            /\ UNCHANGED << isPolling, timers >>
    /\ UNCHANGED << started, now, ledger, sourceUp, persisted, handed,
                    bcastSent, failedAt, outageCursor >>

\* First run: SystemState.findOne rejects.
FindOneRejects(a) ==
    /\ a.pc = "findOne"
    /\ CatchAndFinally(a)
    /\ UNCHANGED << started, now, ledger, sourceUp, lastProcessedTimestamp,
                    persisted, handed, bcastSent, failedAt, outageCursor >>

\* First run: the upsert of the fresh cursor resolves;
\* `isPolling = false; return;`.
InitSaveResolves(a) ==
    /\ a.pc = "initSave"
    /\ persisted' = a.saveVal
    /\ Finish(a)
    /\ UNCHANGED << started, now, ledger, sourceUp, lastProcessedTimestamp,
                    handed, bcastSent, failedAt, outageCursor >>

InitSaveRejects(a) ==
    /\ a.pc = "initSave"
    /\ CatchAndFinally(a)
    /\ UNCHANGED << started, now, ledger, sourceUp, lastProcessedTimestamp,
                    persisted, handed, bcastSent, failedAt, outageCursor >>

\* queryNewEvents returns.  It never rejects: its own catch turns a failed
\* request into an empty batch with latestTimestamp = lastProcessedTimestamp.
\* meta is the _meta.block.timestamp of the response, 0 when it is absent.
QueryReturns(a, failed, meta) ==
    LET evs    == IF failed THEN {} ELSE EventsSince(a.qcursor)
        latest == IF failed THEN lastProcessedTimestamp
                  ELSE LatestOf(meta, lastProcessedTimestamp)
    IN  /\ a.pc = "query"
        /\ IF evs = {}
           THEN Checkpoint(a, latest)
           ELSE /\ acts' = Replace(acts, a,
                         [ a EXCEPT !.pc = "handlers", !.qcursor = 0,
                                    !.events = evs, !.latest = latest ])
                /\ UNCHANGED << lastProcessedTimestamp, isPolling, timers >>
        /\ UNCHANGED << started, now, ledger, sourceUp, persisted, handed,
                        bcastSent, failedAt, outageCursor >>

queryNewEvents(a) ==
    \/ /\ ~ sourceUp
       /\ QueryReturns(a, TRUE, 0)
    \/ /\ sourceUp
       /\ \E meta \in { 0, now } : QueryReturns(a, FALSE, meta)

\* One `await processXxxEvents(batch)` of the try block.  outcome gives,
\* for each event that reaches its broadcast, how getCircleMembers and
\* subscriptionStore.getMany fared (both swallow their errors and return
\* an empty list).
ProcessBatch(a, outcome) ==
    LET batch == BatchOf(a.events)
        rest  == a.events \ batch
    IN  /\ a.pc = "handlers"
        /\ handed' = handed \cup Reached(batch)
        /\ bcastSent' = bcastSent \cup
                          { i \in Broadcasting(batch) : outcome[i] = "ok" }
        /\ IF Thrower(batch) # 0
           THEN /\ CatchAndFinally(a)
                /\ failedAt' = lastProcessedTimestamp
                /\ UNCHANGED lastProcessedTimestamp
           ELSE /\ failedAt' = failedAt
                /\ IF rest = {}
                   THEN Checkpoint(a, a.latest)
                   ELSE /\ acts' = Replace(acts, a, [ a EXCEPT !.events = rest ])
                        /\ UNCHANGED << lastProcessedTimestamp, isPolling,
                                        timers >>
        /\ UNCHANGED << started, now, ledger, sourceUp, persisted,
                        outageCursor >>

processEvents(a) ==
    /\ a.pc = "handlers"
    /\ \E outcome \in [ Broadcasting(BatchOf(a.events)) -> BroadcastOutcomes ] :
          ProcessBatch(a, outcome)

\* The checkpoint upsert resolves; the try block ends, `finally` runs.
SaveResolves(a) ==
    /\ a.pc = "save"
    /\ persisted' = a.saveVal
    /\ Finish(a)
    /\ UNCHANGED << started, now, ledger, sourceUp, lastProcessedTimestamp,
                    handed, bcastSent, failedAt, outageCursor >>

\* The checkpoint upsert rejects.
SaveRejects(a) ==
    /\ a.pc = "save"
    /\ CatchAndFinally(a)
    /\ UNCHANGED << started, now, ledger, sourceUp, lastProcessedTimestamp,
                    persisted, handed, bcastSent, failedAt, outageCursor >>

Next ==
    \/ NewBlock /\ UNCHANGED nonPollVars
    \/ \E v \in EmittedVariants, bad \in BOOLEAN : EmitEvent(v, bad) /\ UNCHANGED nonPollVars
    \/ SourceDown /\ UNCHANGED nonPollVars
    \/ SourceRecovers /\ UNCHANGED nonPollVars
    \/ startPolling /\ UNCHANGED nonPollVars
    \/ TickDropped /\ UNCHANGED nonPollVars
    \/ TickStarts /\ UNCHANGED nonPollVars
    \/ \E t \in BagToSet(timers) : RetryFires(t) /\ UNCHANGED nonPollVars
    \/ \E a \in InFlight : FindOneResolves(a) /\ UNCHANGED nonPollVars
    \/ \E a \in InFlight : FindOneRejects(a) /\ UNCHANGED nonPollVars
    \/ \E a \in InFlight : InitSaveResolves(a) /\ UNCHANGED nonPollVars
    \/ \E a \in InFlight : InitSaveRejects(a) /\ UNCHANGED nonPollVars
    \/ \E a \in InFlight : queryNewEvents(a) /\ UNCHANGED nonPollVars
    \/ \E a \in InFlight : processEvents(a) /\ UNCHANGED nonPollVars
    \/ \E a \in InFlight : SaveResolves(a) /\ UNCHANGED nonPollVars
    \/ \E a \in InFlight : SaveRejects(a) /\ UNCHANGED nonPollVars

Spec == Init /\ [][Next]_<< vars, nonPollVars >>

\* The loop with an event source and stores that respond: every request
\* to the subgraph is answered with its _meta block, every SystemState
\* read and write resolves, and the timers fire.  The interval keeps firing
\* for as long as the process lives, a retry callback fires when its delay
\* has passed, and an awaited promise that can settle does settle.
QueryResponds(a) == QueryReturns(a, FALSE, now)

LiveNext ==
    \/ NewBlock /\ UNCHANGED nonPollVars
    \/ \E v \in EmittedVariants, bad \in BOOLEAN : EmitEvent(v, bad) /\ UNCHANGED nonPollVars
    \/ startPolling /\ UNCHANGED nonPollVars
    \/ TickDropped /\ UNCHANGED nonPollVars
    \/ TickStarts /\ UNCHANGED nonPollVars
    \/ \E t \in BagToSet(timers) : RetryFires(t) /\ UNCHANGED nonPollVars
    \/ \E a \in InFlight : FindOneResolves(a) /\ UNCHANGED nonPollVars
    \/ \E a \in InFlight : InitSaveResolves(a) /\ UNCHANGED nonPollVars
    \/ \E a \in InFlight : QueryResponds(a) /\ UNCHANGED nonPollVars
    \/ \E a \in InFlight : processEvents(a) /\ UNCHANGED nonPollVars
    \/ \E a \in InFlight : SaveResolves(a) /\ UNCHANGED nonPollVars

LiveFairness ==
    /\ WF_vars(startPolling)
    /\ WF_vars(TickStarts)
    /\ WF_vars(\E t \in BagToSet(timers) : RetryFires(t))
    /\ WF_vars(\E a \in InFlight : FindOneResolves(a))
    /\ WF_vars(\E a \in InFlight : InitSaveResolves(a))
    /\ WF_vars(\E a \in InFlight : QueryResponds(a))
    /\ WF_vars(\E a \in InFlight : processEvents(a))
    /\ WF_vars(\E a \in InFlight : SaveResolves(a))

LiveSpec == Init /\ [][LiveNext]_<< vars, nonPollVars >> /\ LiveFairness

\* The polling loop before startPolling, with an empty ledger.
PollIdle ==
    /\ started = FALSE
    /\ now = 1
    /\ ledger = << >>
    /\ sourceUp = TRUE
    /\ lastProcessedTimestamp = 0
    /\ isPolling = FALSE
    /\ persisted = 0
    /\ acts = EmptyBag
    /\ timers = EmptyBag
    /\ handed = {}
    /\ bcastSent = {}
    /\ failedAt = 0
    /\ outageCursor = 0

\* ======================================================== deadline scheduler
\* `daysUntilDeadline = timeUntilDeadline / 86400`
SecondsPerDay == 86400

\* `hoursUntilDeadline = (parseInt(circle.nextDeadline) - now) / 3600`
SecondsPerHour == 3600

\* `const milestones = [25, 50, 75]`
Milestones == << 25, 50, 75 >>

\* `progress < milestone + 5`
MilestoneBand == 5

\* The goals a behaviour may start with: a goal 52% funded with two days to
\* go, a funded goal with one day to go, and a goal with a zero target whose
\* deadline is far away.
GoalChoices ==
    { [ currentAmount |-> 52,  goalAmount |-> 100, deadline |-> 129601 ],
      [ currentAmount |-> 100, goalAmount |-> 100, deadline |-> 43201 ],
      [ currentAmount |-> 52,  goalAmount |-> 0,   deadline |-> 259201 ] }

\* The active circle a behaviour may start with: due within the hour or
\* within the day with a member who has not contributed, or due within the
\* day with every member paid up.
CircleChoices ==
    { [ nextDeadline |-> 1801,  pending |-> TRUE ],
      [ nextDeadline |-> 43201, pending |-> TRUE ],
      [ nextDeadline |-> 43201, pending |-> FALSE ] }

\* Outcome of one sendNotification call as its caller sees it: a result with
\* sent > 0, a result with sent = 0, or an exception.
DispatchOutcomes == { "sent", "noneSent", "raised" }

\* The percentage rounded to the nearest integer instead of truncated.
calculateProgress_Rounded(current, target) ==
    IF target = 0 THEN 0 ELSE (current * 200 + target) \div (2 * target)

\* calculateProgress: Number((current * 100n) / target), 0 for a zero target.
calculateProgress(current, target) ==
    IF target = 0 THEN 0 ELSE (current * 100) \div target

\* The six conditions checkGoalDeadlines evaluates for a goal, in order:
\* 2 days, 1 day, milestones 25/50/75, completed.
GoalConditions == 1 .. 6

\* `deadline - now`
TimeUntilDeadline(goal) == goal.deadline - now

\* The guards with the two-day window closed at one day.
GoalConditionHolds_Overlap(goal, c) ==
    LET t        == TimeUntilDeadline(goal)
        progress == calculateProgress(goal.currentAmount, goal.goalAmount)
    IN  CASE c = 1 -> t <= 2 * SecondsPerDay /\ t >= SecondsPerDay
          [] c = 2 -> t <= SecondsPerDay /\ t > 0
          [] c \in 3 .. 5 ->
                /\ progress >= Milestones[c - 2]
                /\ progress < Milestones[c - 2] + MilestoneBand
          [] OTHER -> progress >= 100

\* The guard of condition c for a goal, without the registry lookup.  The
\* day comparisons are multiplied through by 86400.
GoalConditionHolds(goal, c) ==
    LET t        == TimeUntilDeadline(goal)
        progress == calculateProgress(goal.currentAmount, goal.goalAmount)
    IN  CASE c = 1 -> t <= 2 * SecondsPerDay /\ t > SecondsPerDay
          [] c = 2 -> t <= SecondsPerDay /\ t > 0
          [] c \in 3 .. 5 ->
                /\ progress >= Milestones[c - 2]
                /\ progress < Milestones[c - 2] + MilestoneBand
          [] OTHER -> progress >= 100

\* The notification key of condition c of the g-th goal:
\* `goal_2days_${id}`, `goal_1day_${id}`, `goal_milestone_${id}_${m}`,
\* `goal_completed_${id}`; the goal's id is its index.
GoalKey(g, c) ==
    CASE c = 1 -> << "goal_2days", g, 0 >>
      [] c = 2 -> << "goal_1day", g, 0 >>
      [] c \in 3 .. 5 -> << "goal_milestone", g, Milestones[c - 2] >>
      [] OTHER -> << "goal_completed", g, 0 >>

\* `hoursUntilDeadline <= 24 && hoursUntilDeadline > 0`
CircleInWindow(circle) ==
    /\ circle.nextDeadline - now <= 24 * SecondsPerHour
    /\ circle.nextDeadline - now > 0

\* `isFinalWarning = hoursUntilDeadline <= 1`
IsFinalWarning(circle) == circle.nextDeadline - now <= SecondsPerHour

\* `circle_${notificationType}_${circle.id}_${circle.currentRound}`
CircleKey(i) ==
    << IF IsFinalWarning(circles[i]) THEN "circle_late_payment_warning"
                                     ELSE "circle_contribution_due",
       i, 0 >>

\* Every key the evaluators can form, and the frame field of a run that is
\* not waiting for a dispatch.
KeyUniverse ==
    { GoalKey(g, c) : g \in 1 .. MaxGoals, c \in GoalConditions }
       \cup { << t, 1, 0 >> : t \in { "circle_late_payment_warning",
                                      "circle_contribution_due" } }

NoKey == << "none", 0, 0 >>

\* Positions of the goal loop, in the order the code visits them.
Before(p, q) == p[1] < q[1] \/ (p[1] = q[1] /\ p[2] <= q[2])

\* GoalDue without the `!sentNotifications.has(notificationKey)` test.
GoalDue_NoRegistryTest(from, reg) ==
    { p \in (DOMAIN goals) \X GoalConditions :
        /\ Before(from, p)
        /\ GoalConditionHolds(goals[p[1]], p[2]) }

\* Positions at or after `from` whose condition holds and whose key is not
\* in registry reg: the places where the loop calls sendNotification.
GoalDue(from, reg) ==
    { p \in (DOMAIN goals) \X GoalConditions :
        /\ Before(from, p)
        /\ GoalConditionHolds(goals[p[1]], p[2])
        /\ GoalKey(p[1], p[2]) \notin reg }

FirstDue(due) == CHOOSE p \in due : \A q \in due : Before(p, q)

\* The position after p in the loop.
NextPosition(p) == IF p[2] < 6 THEN << p[1], p[2] + 1 >> ELSE << p[1] + 1, 1 >>

ActiveRuns == BagToSet(runs)

\* The goal loop runs from position `from` with registry reg up to its next
\* `await sendNotification(...)`, or to the end of the function.
GoalScan(a, from, reg) ==
    LET due == GoalDue(from, reg)
    IN  IF due = {}
        THEN /\ runs' = runs (-) SetToBag({ a })
             /\ fullScan' = (fullScan \/ a.epoch = resets)
        ELSE /\ runs' = Replace(runs, a,
                   [ a EXCEPT !.pc = "send", !.at = FirstDue(due),
                              !.key = GoalKey(FirstDue(due)[1], FirstDue(due)[2]) ])
             /\ UNCHANGED fullScan

\* The add replacing the registry by the one key.
KeyAdded_Overwrite(key, outcome) ==
    /\ sentNotifications' = { key }
    /\ dispatched' = [ dispatched EXCEPT ![key] = @ + 1 ]
    /\ lastOutcome' = outcome

\* A sendNotification call returns a result: the caller adds the key.
KeyAdded(key, outcome) ==
    /\ sentNotifications' = sentNotifications \cup { key }
    /\ dispatched' = [ dispatched EXCEPT ![key] = @ + 1 ]
    /\ lastOutcome' = outcome

\* State after initializeScheduler: empty registry, no run.  goals and
\* circles are what the subgraph will report to every run.
SchedInit ==
    /\ PollIdle
    /\ PushIdle
    /\ FanIdle
    /\ EvalIdle
    /\ sentNotifications = {}
    /\ goals \in UNION { [ 1 .. n -> GoalChoices ] : n \in 1 .. MaxGoals }
    /\ circles \in { << >> } \cup { << c >> : c \in CircleChoices }
    /\ runs = EmptyBag
    /\ dispatched = [ k \in KeyUniverse |-> 0 ]
    /\ lastOutcome = "none"
    /\ ticks = 0
    /\ resets = 0
    /\ overlap = FALSE
    /\ fullScan = FALSE

schedFixed == << goals, circles >>

\* State of the components other than the scheduler.
nonSchedVars == << vars, pushVars, fanVars, evalVars >>

\* A timer callback of startScheduler (daily cron, 6-hourly cron or the
\* start-up timeout): `checkGoalDeadlines(); checkCircleDeadlines();`, each
\* run up to its first await.
CronTick ==
    /\ ticks < MaxTicks
    /\ BagCardinality(runs) <= MaxLive
    /\ ticks' = ticks + 1
    /\ overlap' = (overlap \/ runs # EmptyBag)
    /\ runs' = runs
                (+) SetToBag({ [ kind |-> "goal", pc |-> "goals",
                                 at |-> << 0, 0 >>, key |-> NoKey,
                                 epoch |-> resets ] })
                (+) SetToBag({ [ kind |-> "circle", pc |-> "circles",
                                 at |-> << 0, 0 >>, key |-> NoKey,
                                 epoch |-> resets ] })
    /\ UNCHANGED << sentNotifications, dispatched, lastOutcome, resets,
                    fullScan >>
    /\ UNCHANGED schedFixed

\* checkGoalDeadlines resumes from `await getActiveGoals()`, which returns
\* [] when its request fails.
GoalsReturn(a, ok) ==
    /\ a.kind = "goal"
    /\ a.pc = "goals"
    /\ IF ok
       THEN GoalScan(a, << 1, 1 >>, sentNotifications)
       ELSE /\ runs' = runs (-) SetToBag({ a })
            /\ UNCHANGED fullScan
    /\ UNCHANGED << sentNotifications, dispatched, lastOutcome, ticks,
                    resets, overlap >>
    /\ UNCHANGED schedFixed

\* checkGoalDeadlines resumes from `await sendNotification(...)`:
\* `sentNotifications.add(notificationKey)` and on with the loop.  An
\* exception leaves the function (it has no try block) and rejects the
\* promise the timer callback dropped: an unhandled rejection.
GoalSendReturns(a, outcome) ==
    /\ a.kind = "goal"
    /\ a.pc = "send"
    /\ IF outcome = "raised"
       THEN /\ runs' = runs (-) SetToBag({ a })
            /\ lastOutcome' = "unhandled"
            /\ UNCHANGED << sentNotifications, dispatched, fullScan >>
       ELSE /\ KeyAdded(a.key, outcome)
            /\ GoalScan(a, NextPosition(a.at),
                        sentNotifications \cup { a.key })
    /\ UNCHANGED << ticks, resets, overlap >>
    /\ UNCHANGED schedFixed

\* checkCircleDeadlines resumes from the active-circles request; a failed
\* request lands in the catch block.
CirclesReturn(a, ok) ==
    /\ a.kind = "circle"
    /\ a.pc = "circles"
    /\ IF ok /\ \E i \in DOMAIN circles : CircleInWindow(circles[i])
       THEN runs' = Replace(runs, a, [ a EXCEPT !.pc = "batch" ])
       ELSE runs' = runs (-) SetToBag({ a })
    /\ UNCHANGED << sentNotifications, dispatched, lastOutcome, ticks,
                    resets, overlap, fullScan >>
    /\ UNCHANGED schedFixed

\* Circles at or after index `from` with a pending member and a key that is
\* not in registry reg.
CircleDue(from, reg) ==
    { i \in DOMAIN circles :
        /\ i >= from
        /\ CircleInWindow(circles[i])
        /\ circles[i].pending
        /\ CircleKey(i) \notin reg }

\* The circle loop runs from index `from` up to its next await or its end.
CircleScan(a, from, reg) ==
    LET due == CircleDue(from, reg)
        i   == CHOOSE j \in due : \A k \in due : j <= k
    IN  IF due = {}
        THEN runs' = runs (-) SetToBag({ a })
        ELSE runs' = Replace(runs, a,
                 [ a EXCEPT !.pc = "send", !.at = << i, 0 >>,
                            !.key = CircleKey(i) ])

\* checkCircleDeadlines resumes from the batch request.
BatchReturns(a, ok) ==
    /\ a.kind = "circle"
    /\ a.pc = "batch"
    /\ IF ok
       THEN CircleScan(a, 1, sentNotifications)
       ELSE runs' = runs (-) SetToBag({ a })
    /\ UNCHANGED << sentNotifications, dispatched, lastOutcome, ticks,
                    resets, overlap, fullScan >>
    /\ UNCHANGED schedFixed

\* checkCircleDeadlines resumes from `await sendNotification(...)`; an
\* exception is caught by the function's try block, which ends the loop.
CircleSendReturns(a, outcome) ==
    /\ a.kind = "circle"
    /\ a.pc = "send"
    /\ IF outcome = "raised"
       THEN /\ runs' = runs (-) SetToBag({ a })
            /\ lastOutcome' = "caught"
            /\ UNCHANGED << sentNotifications, dispatched >>
       ELSE /\ KeyAdded(a.key, outcome)
            /\ CircleScan(a, a.at[1] + 1, sentNotifications \cup { a.key })
    /\ UNCHANGED << ticks, resets, overlap, fullScan >>
    /\ UNCHANGED schedFixed

\* The weekly cron callback: `sentNotifications.clear()`.
cleanupSentNotifications ==
    /\ resets < MaxResets
    /\ resets' = resets + 1
    /\ sentNotifications' = {}
    /\ dispatched' = [ k \in DOMAIN dispatched |-> 0 ]
    /\ fullScan' = FALSE
    /\ UNCHANGED << runs, lastOutcome, ticks, overlap >>
    /\ UNCHANGED schedFixed

SchedNext ==
    \/ CronTick /\ UNCHANGED nonSchedVars
    \/ \E a \in ActiveRuns, ok \in BOOLEAN : GoalsReturn(a, ok) /\ UNCHANGED nonSchedVars
    \/ \E a \in ActiveRuns, o \in DispatchOutcomes :
          GoalSendReturns(a, o) /\ UNCHANGED nonSchedVars
    \/ \E a \in ActiveRuns, ok \in BOOLEAN : CirclesReturn(a, ok) /\ UNCHANGED nonSchedVars
    \/ \E a \in ActiveRuns, ok \in BOOLEAN : BatchReturns(a, ok) /\ UNCHANGED nonSchedVars
    \/ \E a \in ActiveRuns, o \in DispatchOutcomes :
          CircleSendReturns(a, o) /\ UNCHANGED nonSchedVars
    \/ cleanupSentNotifications /\ UNCHANGED nonSchedVars

SchedSpec == SchedInit /\ [][SchedNext]_<< vars, nonPollVars >>

\* ============================================================ push dispatcher
\* Users whose addresses appear in calls and in the Subscription collection.
Users == 1 .. MaxUsers

\* An address string: the account it names and whether it is written with
\* upper-case hex digits.
Addresses == [ id : Users, upper : BOOLEAN ]

\* String.prototype.toLowerCase on an address.
toLowerCase(addr) == [ addr EXCEPT !.upper = FALSE ]

\* A stored boolean preference: true, false or absent from the document.
Flag == { "true", "false", "unset" }

\* `preferences` of a subscription, reduced to pushEnabled and the flag of
\* one notification type.
Preferences == [ pushEnabled : Flag, circleMemberPayout : Flag ]

NoPreferences == [ pushEnabled |-> "unset", circleMemberPayout |-> "unset" ]

\* What the Subscription collection holds for a user: a document or nothing.
StoreDocs ==
    [ present : { TRUE }, preferences : Preferences ]
        \cup { [ present |-> FALSE, preferences |-> NoPreferences ] }

\* Payload types of the calls: one with an entry in
\* NOTIFICATION_PREFERENCE_KEYS and one without.
PayloadTypes == { "circle_member_payout", "circle_payout" }

\* The entries of the NOTIFICATION_PREFERENCE_KEYS object literal.
PreferenceKeys ==
    [ circle_member_joined      |-> "circleMemberJoined",
      circle_member_payout      |-> "circleMemberPayout",
      circle_member_contributed |-> "circleMemberContributed",
      circle_member_withdrew    |-> "circleMemberWithdrew",
      circle_started            |-> "circleStarted",
      circle_completed          |-> "circleCompleted",
      circle_dead               |-> "circleDead",
      contribution_due          |-> "contributionDue",
      vote_required             |-> "voteRequired",
      vote_executed             |-> "voteExecuted",
      member_forfeited          |-> "memberForfeited",
      late_payment_warning      |-> "latePaymentWarning",
      position_assigned         |-> "positionAssigned",
      goal_deadline_2days       |-> "goalDeadline2Days",
      goal_deadline_1day        |-> "goalDeadline1Day",
      goal_completed            |-> "goalCompleted",
      goal_contribution_due     |-> "goalContributionDue",
      goal_milestone            |-> "goalMilestone",
      circle_invite             |-> "circleInvite",
      invite_accepted           |-> "inviteAccepted",
      payment_received          |-> "paymentReceived",
      credit_score_changed      |-> "creditScoreChanged",
      withdrawal_fee_applied    |-> "withdrawalFeeApplied",
      collateral_returned       |-> "collateralReturned",
      system_maintenance        |-> "systemMaintenance",
      security_alert            |-> "securityAlert" ]

\* NOTIFICATION_PREFERENCE_KEYS[type], "none" when the type has no entry.
NOTIFICATION_PREFERENCE_KEYS(type) ==
    IF type \in DOMAIN PreferenceKeys THEN PreferenceKeys[type] ELSE "none"

\* isNotificationEnabled requiring the mapped flag to be true.
isNotificationEnabled_FailClosed(preferences, type) ==
    IF preferences.pushEnabled = "false"
    THEN FALSE
    ELSE LET key == NOTIFICATION_PREFERENCE_KEYS(type)
         IN  IF key # "none" THEN preferences[key] = "true" ELSE FALSE

\* isNotificationEnabled.
isNotificationEnabled(preferences, type) ==
    IF preferences.pushEnabled = "false"
    THEN FALSE
    ELSE LET key == NOTIFICATION_PREFERENCE_KEYS(type)
         IN  IF key # "none" THEN preferences[key] # "false" ELSE TRUE

\* SubscriptionStore.getMany: the documents whose userAddress is one of the
\* lower-cased addresses and whose pushEnabled is not false; [] for an
\* empty list and when the query fails.
getMany(addrs, ok) ==
    IF Len(addrs) = 0 \/ ~ ok
    THEN {}
    ELSE { [ userAddress |-> [ id |-> u, upper |-> FALSE ],
             preferences |-> store[u].preferences ] :
             u \in { v \in Users :
                       /\ store[v].present
                       /\ \E i \in DOMAIN addrs :
                             toLowerCase(addrs[i]) = [ id |-> v, upper |-> FALSE ]
                       /\ store[v].preferences.pushEnabled # "false" } }

\* `subscriptions.find(s => s.userAddress.toLowerCase() === normalizedAddr)`
Found(userAddress) ==
    { sub \in subscriptions :
        toLowerCase(sub.userAddress) = toLowerCase(userAddress) }

\* sendToUser up to its await: the error it returns without calling the
\* transport, "none" when it goes on to webpush.sendNotification.
SendToUserRefusal(subscription, type) ==
    IF ~ isConfigured
    THEN "Push service not configured"
    ELSE IF ~ isNotificationEnabled(subscription.preferences, type)
         THEN "Notification type disabled by user"
         ELSE "none"

\* Outcomes of webpush.sendNotification: resolved, rejected, rejected with
\* status 404 or 410.
TransportOutcomes == { "delivered", "rejected", "gone" }

\* error.message of a rejected webpush.sendNotification.
TransportError == "webpush error"

\* The failure bookkeeping without `results.failed++`.
Failed_Uncounted(r, errs) == [ r EXCEPT !.errors = @ \o errs ]

\* The failure bookkeeping with every error string pushed twice.
Failed_DoubleEntry(r, errs) ==
    [ r EXCEPT !.failed = @ + 1, !.errors = @ \o errs \o errs ]

\* `results.failed++` and the push of the error strings errs, if any.
Failed(r, errs) == [ r EXCEPT !.failed = @ + 1, !.errors = @ \o errs ]

\* `${subscription.userAddress}: ${result.error}`
ErrorEntry(subscription, error) ==
    [ userAddress |-> subscription.userAddress, error |-> error ]

\* The for loop moves to the next address, or the call returns.
NextAddress ==
    /\ index' = index + 1
    /\ sendPc' = IF index + 1 > Len(userAddresses) THEN "done" ELSE "loop"

\* State after initializePushService, with any Subscription collection.
PushInit ==
    /\ PollIdle
    /\ SchedIdle
    /\ FanIdle
    /\ EvalIdle
    /\ isConfigured \in BOOLEAN
    /\ store \in [ Users -> StoreDocs ]
    /\ userAddresses = << >>
    /\ payloadType = "none"
    /\ sendPc = "idle"
    /\ index = 0
    /\ subscriptions = {}
    /\ results = [ sent |-> 0, failed |-> 0, errors |-> << >> ]
    /\ transportCalls = << >>
    /\ calls = 0
    /\ removals = {}
    /\ gone = [ u \in Users |-> 0 ]

\* sendNotification(userAddresses, payload) up to `await getMany`, called
\* when no earlier call is running.
sendNotification(addrs, type) ==
    /\ sendPc \in { "idle", "done" }
    /\ calls < MaxCalls
    /\ calls' = calls + 1
    /\ userAddresses' = addrs
    /\ payloadType' = type
    /\ sendPc' = "getMany"
    /\ index' = 0
    /\ subscriptions' = {}
    /\ results' = [ sent |-> 0, failed |-> 0, errors |-> << >> ]
    /\ transportCalls' = << >>
    /\ UNCHANGED << isConfigured, store, removals, gone >>

\* getMany returns; `results` is initialised and the loop is entered.
getManyReturns(ok) ==
    /\ sendPc = "getMany"
    /\ subscriptions' = getMany(userAddresses, ok)
    /\ results' = [ sent |-> 0, failed |-> 0, errors |-> << >> ]
    /\ index' = 1
    /\ sendPc' = IF Len(userAddresses) = 0 THEN "done" ELSE "loop"
    /\ UNCHANGED << isConfigured, store, userAddresses, payloadType,
                    transportCalls, calls, removals, gone >>

\* One iteration of the loop up to the transport call: no subscription
\* found, sendToUser refuses, or webpush.sendNotification is invoked.
LoopStep ==
    /\ sendPc = "loop"
    /\ LET found == Found(userAddresses[index])
       IN  IF found = {}
           THEN /\ results' = Failed(results, << >>)
                /\ NextAddress
                /\ UNCHANGED transportCalls
           ELSE LET subscription == CHOOSE sub \in found : TRUE
                    refusal == SendToUserRefusal(subscription, payloadType)
                IN  IF refusal # "none"
                    THEN /\ results' = Failed(results,
                                          << ErrorEntry(subscription, refusal) >>)
                         /\ NextAddress
                         /\ UNCHANGED transportCalls
                    ELSE /\ transportCalls' = Append(transportCalls, index)
                         /\ sendPc' = "transport"
                         /\ UNCHANGED << index, results >>
    /\ UNCHANGED << isConfigured, store, userAddresses, payloadType,
                    subscriptions, calls, removals, gone >>

\* `error.statusCode === 404 || error.statusCode === 410`
RemovedOn == { "gone" }

\* webpush.sendNotification settles; sendToUser returns and the loop body
\* counts the result.  On a 404 / 410 sendToUser first calls
\* subscriptionStore.remove without awaiting it: the deleteOne request is
\* issued and the loop goes on.
transportReturns(outcome) ==
    /\ sendPc = "transport"
    /\ LET subscription == CHOOSE sub \in Found(userAddresses[index]) : TRUE
           u == subscription.userAddress.id
       IN  /\ results' = IF outcome = "delivered"
                         THEN [ results EXCEPT !.sent = @ + 1 ]
                         ELSE Failed(results,
                                << ErrorEntry(subscription, TransportError) >>)
           /\ removals' = IF outcome \in RemovedOn
                          THEN removals \cup { u } ELSE removals
           /\ gone' = IF outcome = "gone" /\ gone[u] = 0
                      THEN [ gone EXCEPT ![u] = calls ] ELSE gone
    /\ NextAddress
    /\ UNCHANGED << isConfigured, store, userAddresses, payloadType,
                    subscriptions, transportCalls, calls >>

\* SubscriptionStore.remove: Subscription.deleteOne settles.  The document
\* is deleted when the request succeeds; a rejection is caught and logged.
\* The response is handled when the event loop is free: while a call waits
\* for getMany or for the transport, or between calls, not between two
\* iterations of the loop, which follow each other without a macrotask.
deleteOneReturns(u, ok) ==
    /\ u \in removals
    /\ sendPc # "loop"
    /\ removals' = removals \ { u }
    /\ store' = IF ok
                THEN [ store EXCEPT ![u] = [ present |-> FALSE,
                                             preferences |-> NoPreferences ] ]
                ELSE store
    /\ UNCHANGED << isConfigured, userAddresses, payloadType, sendPc, index,
                    subscriptions, results, transportCalls, calls, gone >>

\* State of the components other than the push dispatcher.
nonPushVars == << vars, schedVars, fanVars, evalVars >>

\* Address lists a call may be made with.
AddressLists == UNION { [ 1 .. n -> Addresses ] : n \in 0 .. MaxRecipients }

PushNext ==
    \/ \E addrs \in AddressLists, type \in PayloadTypes :
          sendNotification(addrs, type) /\ UNCHANGED nonPushVars
    \/ \E ok \in BOOLEAN : getManyReturns(ok) /\ UNCHANGED nonPushVars
    \/ LoopStep /\ UNCHANGED nonPushVars
    \/ \E o \in TransportOutcomes : transportReturns(o) /\ UNCHANGED nonPushVars
    \/ \E u \in Users, ok \in BOOLEAN :
          deleteOneReturns(u, ok) /\ UNCHANGED nonPushVars

PushSpec == PushInit /\ [][PushNext]_<< vars, nonPollVars >>

\* ================================================================== fan-out
\* Accounts that join circles, create them and cause events.
Members == 1 .. MaxMembers

\* Address strings of those accounts, in either letter case.
MemberAddresses == [ id : Members, upper : BOOLEAN ]

\* The handlers that notify the event's user and the rest of the circle.
Handlers ==
    { "processCircleJoinedEvents", "processPayoutEvents",
      "processContributionEvents", "processCollateralWithdrawnEvents",
      "processMemberForfeitedEvents" }

\* Handlers that send the notification to the event's user before they
\* resolve the circle's members.
DirectFirst ==
    { "processCollateralWithdrawnEvents", "processMemberForfeitedEvents" }

\* Handlers that send a notification to the event's user at all.
WithDirect == Handlers \ { "processCircleJoinedEvents" }

\* Handlers that notify every member of the circle; their events carry no
\* user.
AllMemberHandlers ==
    { "processVotingInitiatedEvents", "processVoteExecutedEvents" }

\* Handlers that notify the event's user only.
DirectOnly == { "processMemberInvitedEvents" }

AllHandlers == Handlers \cup AllMemberHandlers \cup DirectOnly

\* No handler testing the user id.
Guarded_None == {}

\* Handlers with `if (!event.<user>?.id) continue`.
Guarded == Handlers \cup DirectOnly

\* What a sendNotification call reports back: somebody was sent, or nobody.
SendResults == { "sent", "noneSent" }

\* The handler going on only when the call reported a recipient sent.
Proceeds_OnlyIfSent(result) == result = "sent"

\* The handler goes on after `await sendNotification(...)` whatever the
\* result says: no handler reads results.sent or results.failed.
Proceeds(result) == result \in SendResults

\* getCircleMembers keeping the ids as the ledger reports them.
getCircleMembers_AsReported(ok) ==
    IF ~ ok
    THEN {}
    ELSE circleJoineds
           \cup (IF circleCreator # NoAddress THEN { circleCreator } ELSE {})

\* getCircleMembers: a Set of the lower-cased circleJoineds user ids and the
\* lower-cased creator id; [] when there is no client or the request fails.
getCircleMembers(ok) ==
    IF ~ ok
    THEN {}
    ELSE { toLowerCase(a) : a \in circleJoineds }
           \cup (IF circleCreator # NoAddress
                 THEN { toLowerCase(circleCreator) }
                 ELSE {})

\* The filter comparing the strings as they are.
OthersToNotify_CaseSensitive(ms, user) == { m \in ms : m # user }

\* `members.filter((m) => m.toLowerCase() !== event.user.id.toLowerCase())`
OthersToNotify(ms, user) ==
    { m \in ms : toLowerCase(m) # toLowerCase(user) }

\* The address list of the notification to the event's user: lower-cased by
\* the payout and contribution handlers, as it is by the other two.
DirectAddress(kind, user) ==
    IF kind \in DirectFirst \cup DirectOnly THEN user ELSE toLowerCase(user)

\* Titles, without their emoji.
DirectTitle(kind) ==
    CASE kind = "processPayoutEvents" -> "Payment Received!"
      [] kind = "processContributionEvents" -> "Contribution Successful!"
      [] kind = "processCollateralWithdrawnEvents" -> "Collateral Returned"
      [] kind = "processMemberInvitedEvents" -> "Circle Invitation"
      [] OTHER -> "You have been forfeited"

DirectType(kind) ==
    CASE kind = "processPayoutEvents" -> "circle_payout"
      [] kind = "processContributionEvents" -> "payment_received"
      [] kind = "processCollateralWithdrawnEvents" -> "collateral_returned"
      [] kind = "processMemberInvitedEvents" -> "circle_invite"
      [] OTHER -> "member_forfeited"

BroadcastTitle(kind) ==
    CASE kind = "processCircleJoinedEvents" -> "New Member Joined"
      [] kind = "processPayoutEvents" -> "Circle Payout Completed"
      [] kind = "processContributionEvents" -> "Circle Contribution Made"
      [] kind = "processCollateralWithdrawnEvents" -> "Member Withdrew"
      [] kind = "processVotingInitiatedEvents" -> "Vote Required!"
      [] kind = "processVoteExecutedEvents" -> "Voting Results"
      [] OTHER -> "Member Forfeited"

BroadcastType(kind) ==
    CASE kind = "processCircleJoinedEvents" -> "circle_member_joined"
      [] kind = "processPayoutEvents" -> "circle_member_payout"
      [] kind = "processContributionEvents" -> "circle_member_contributed"
      [] kind = "processCollateralWithdrawnEvents" -> "circle_member_withdrew"
      [] kind = "processVotingInitiatedEvents" -> "vote_required"
      [] kind = "processVoteExecutedEvents" -> "vote_executed"
      [] OTHER -> "member_forfeited"

BroadcastPriority(kind) ==
    IF kind \in { "processCircleJoinedEvents" } \cup AllMemberHandlers
    THEN "high"
    ELSE "medium"

\* The sendNotification call to the event's user.
DirectCall(kind, user) ==
    [ role |-> "direct", to |-> { DirectAddress(kind, user) },
      title |-> DirectTitle(kind), type |-> DirectType(kind),
      priority |-> "high", result |-> "pending" ]

\* The sendNotification call to the other members.
BroadcastCall(kind, others) ==
    [ role |-> "broadcast", to |-> others,
      title |-> BroadcastTitle(kind), type |-> BroadcastType(kind),
      priority |-> BroadcastPriority(kind), result |-> "pending" ]

\* `await sendNotification(members, {...})` of the voting handlers: every
\* member, with no test of members.length.
AllMembersCall(kind, ms) ==
    [ role |-> "all", to |-> ms,
      title |-> BroadcastTitle(kind), type |-> BroadcastType(kind),
      priority |-> BroadcastPriority(kind), result |-> "pending" ]

\* The last call of the log has returned with the given result.
Returned(result) ==
    [ sent EXCEPT ![Len(sent)] = [ @ EXCEPT !.result = result ] ]

\* `if (othersToNotify.length > 0) await sendNotification(othersToNotify, ...)`
\* with the members ms and the call log so far, else the handler is through
\* with the event.
BroadcastAfter(ms, log) ==
    LET others == OthersToNotify(ms, event.user)
    IN  IF others # {}
        THEN /\ sent' = Append(log, BroadcastCall(event.kind, others))
             /\ fanPc' = "broadcast"
        ELSE /\ fanPc' = "done"
             /\ sent' = log

\* A circle on the ledger, no event handled yet.
FanInit ==
    /\ PollIdle
    /\ SchedIdle
    /\ PushIdle
    /\ EvalIdle
    /\ circleJoineds \in SUBSET MemberAddresses
    /\ circleCreator \in MemberAddresses \cup { NoAddress }
    /\ event = [ kind |-> "none", user |-> NoAddress ]
    /\ fanPc = "idle"
    /\ resolved = "none"
    /\ members = {}
    /\ sent = << >>
    /\ taken = 0
    /\ skipped = 0
    /\ simEventType = "none"
    /\ simStatus = 0

fanFixed == << circleJoineds, circleCreator >>

simVars == << simEventType, simStatus >>

\* The loop body up to the first await, for the event the loop takes.
Take(kind, user) ==
    /\ taken' = taken + 1
    /\ event' = [ kind |-> kind, user |-> user ]
    /\ resolved' = "none"
    /\ members' = {}
    /\ IF kind \in Guarded /\ user = NoAddress
       THEN /\ fanPc' = "done"
            /\ sent' = << >>
            /\ skipped' = skipped + 1
       ELSE /\ skipped' = skipped
            /\ IF kind \in DirectFirst \cup DirectOnly
               THEN /\ sent' = << DirectCall(kind, user) >>
                    /\ fanPc' = "direct"
               ELSE /\ fanPc' = "members"
                    /\ sent' = << >>
    /\ UNCHANGED fanFixed

\* The for loop of a handler takes the next event of its batch: skipped when
\* the guarded user id is missing, else run up to its first getCircleMembers
\* or sendNotification call (getCircleName only supplies the name in the
\* message).
HandleEvent(kind, user) ==
    /\ \/ fanPc = "idle" /\ simEventType = "none"
       \/ /\ fanPc = "done" /\ taken < MaxBatch /\ kind = event.kind
          /\ simEventType = "none"
    /\ kind \in AllMemberHandlers => user = NoAddress
    /\ Take(kind, user)
    /\ UNCHANGED simVars

\* getCircleMembers returns to the handler.
MembersReturn(ok) ==
    /\ fanPc = "members"
    /\ resolved' = IF ok THEN "ok" ELSE "failed"
    /\ members' = getCircleMembers(ok)
    /\ IF event.kind \in AllMemberHandlers
       THEN /\ sent' = Append(sent,
                         AllMembersCall(event.kind, getCircleMembers(ok)))
            /\ fanPc' = "broadcast"
       ELSE IF event.kind \in WithDirect \ DirectFirst
            THEN /\ sent' = Append(sent, DirectCall(event.kind, event.user))
                 /\ fanPc' = "direct"
            ELSE BroadcastAfter(getCircleMembers(ok), sent)
    /\ UNCHANGED << fanFixed, event, taken, skipped, simVars >>

\* The sendNotification call to the event's user returns.
DirectReturns(result) ==
    /\ fanPc = "direct"
    /\ IF event.kind \in DirectOnly \/ ~ Proceeds(result)
       THEN fanPc' = "done" /\ sent' = Returned(result)
       ELSE IF event.kind \in DirectFirst
            THEN fanPc' = "members" /\ sent' = Returned(result)
            ELSE BroadcastAfter(members, Returned(result))
    /\ UNCHANGED << fanFixed, event, resolved, members, taken, skipped, simVars >>

\* The sendNotification call to the members returns.
BroadcastReturns(result) ==
    /\ fanPc = "broadcast"
    /\ fanPc' = "done"
    /\ sent' = Returned(result)
    /\ UNCHANGED << fanFixed, event, resolved, members, taken, skipped, simVars >>

\* `functionMap` of the POST /simulate-event route.
functionMap ==
    [ contribution |-> "processContributionEvents",
      payout       |-> "processPayoutEvents",
      join         |-> "processCircleJoinedEvents" ]

\* `functionMap[eventType]` when it names an exported function, else "none"
\* (the 400 branch).
procFileName(eventType) ==
    IF eventType \in DOMAIN functionMap THEN functionMap[eventType]
    ELSE "none"

\* Handlers whose loop body is inside a try block with an empty catch.
InnerTry == { "processContributionEvents" }

\* The eventType strings a request may carry: the keys of the table, the
\* names of the handlers, and a string that is neither.
SimEventTypes == DOMAIN functionMap \cup AllHandlers \cup { "unknown" }

\* POST /simulate-event with body { eventType, data }: 400 when the table
\* has no function for eventType, else the function is awaited on [data].
\* Without `data` the batch is [undefined] and `event.user` raises in the
\* loop: swallowed by the handler's own try block, else caught by the route
\* (500).
Simulate(eventType, present, user) ==
    /\ fanPc = "idle"
    /\ simEventType = "none"
    /\ simEventType' = eventType
    /\ LET kind == procFileName(eventType)
       IN  IF kind = "none"
           THEN /\ simStatus' = 400
                /\ UNCHANGED << fanFixed, event, fanPc, resolved, members,
                                sent, taken, skipped >>
           ELSE IF ~ present
           THEN /\ simStatus' = IF kind \in InnerTry THEN 200 ELSE 500
                /\ event' = [ kind |-> kind, user |-> NoAddress ]
                /\ taken' = taken + 1
                /\ fanPc' = "done"
                /\ UNCHANGED << fanFixed, resolved, members, sent, skipped >>
           ELSE /\ simStatus' = 0
                /\ Take(kind, user)

\* The awaited handler has returned: `res.json({ success: true, ... })`.
SimulateResponds ==
    /\ simEventType # "none"
    /\ simStatus = 0
    /\ fanPc = "done"
    /\ simStatus' = 200
    /\ UNCHANGED << fanFixed, event, fanPc, resolved, members, sent, taken,
                    skipped, simEventType >>

\* State of the components other than the fan-out handlers.
nonFanVars == << vars, schedVars, pushVars, evalVars >>

FanNext ==
    \/ \E kind \in AllHandlers, user \in MemberAddresses \cup { NoAddress } :
          HandleEvent(kind, user) /\ UNCHANGED nonFanVars
    \/ \E ok \in BOOLEAN : MembersReturn(ok) /\ UNCHANGED nonFanVars
    \/ \E r \in SendResults : DirectReturns(r) /\ UNCHANGED nonFanVars
    \/ \E r \in SendResults : BroadcastReturns(r) /\ UNCHANGED nonFanVars
    \/ \E eventType \in SimEventTypes, present \in BOOLEAN,
          user \in MemberAddresses \cup { NoAddress } :
          Simulate(eventType, present, user) /\ UNCHANGED nonFanVars
    \/ SimulateResponds /\ UNCHANGED nonFanVars

FanSpec == FanInit /\ [][FanNext]_<< vars, nonPollVars >>

\* ------------------------------------------------------------ properties
\* Activation a took a step: one copy of its frame left the bag.
Moved(a) == CopiesIn(a, acts') < CopiesIn(a, acts)

\* Frames present after the step that were not there before it.
NewFrames == { f \in BagToSet(acts') : CopiesIn(f, acts') > CopiesIn(f, acts) }

\* Events whose handler got as far as the broadcast and sent none.
BroadcastMissed ==
    { i \in handed :
        /\ ledger[i].variant \in BroadcastVariants
        /\ ~ (ledger[i].badAmount /\ ledger[i].variant \in AmountVariants)
        /\ i \notin bcastSent }

\* C1: at most one poll cycle is executing at any time.
C1_OneCycleAtATime == BagCardinality(acts) <= 1

\* C2: while a retry is pending the in-flight flag stays set.
C2_FlagHeldAcrossRetries == (timers # EmptyBag) => isPolling

\* C3: a poll cycle whose event-source query failed schedules a retry of the
\* same poll, with retry count k+1 after 2^k seconds, while k < 3.
C3_QueryFailureRetried ==
    [][ \A a \in InFlight :
          (a.pc = "query" /\ ~ sourceUp /\ Moved(a) /\ a.retryCount < 3)
          => \E t \in BagToSet(timers') :
                /\ CopiesIn(t, timers') > CopiesIn(t, timers)
                /\ t.retryCount = a.retryCount + 1
                /\ t.delay = Pow2(a.retryCount) * 1000 ]_vars

\* C4: neither the in-memory cursor nor the persisted cursor ever decreases.
C4_CursorMonotone ==
    [][ /\ lastProcessedTimestamp' >= lastProcessedTimestamp
        /\ persisted' >= persisted ]_vars

\* The handler of the next batch of activation a raises.
HandlerThrows(a) ==
    /\ a.pc = "handlers"
    /\ Thrower(BatchOf(a.events)) # 0
    /\ Moved(a)

\* C5: a poll cycle in which a handler raises changes neither cursor, and
\* the next poll queries the event source with the cursor of that cycle.
C5_ThrowKeepsWindow ==
    [][ /\ \A a \in InFlight :
              HandlerThrows(a) =>
                 /\ lastProcessedTimestamp' = lastProcessedTimestamp
                 /\ persisted' = persisted
        /\ \A f \in NewFrames :
              (f.pc = "query" /\ failedAt # 0) => f.qcursor = failedAt ]_vars

\* Activation a reaches the checkpoint update in this step: the query
\* returned no event, or the last batch was processed without raising.
ReachesCheckpoint(a) ==
    /\ Moved(a)
    /\ \/ a.pc = "query" /\ (~ sourceUp \/ EventsSince(a.qcursor) = {})
       \/ /\ a.pc = "handlers"
          /\ BatchOf(a.events) = a.events
          /\ Thrower(a.events) = 0

\* C6: a cycle that processed every batch without raising sets the cursor
\* to max(cursor, latest) and ends with that value persisted.
C6_AdvanceAndPersist ==
    [][ \A a \in InFlight :
          /\ (a.pc = "handlers" /\ ReachesCheckpoint(a)) =>
                lastProcessedTimestamp' =
                    IF a.latest > lastProcessedTimestamp
                    THEN a.latest ELSE lastProcessedTimestamp
          /\ (ReachesCheckpoint(a) /\ NewFrames = {}) =>
                persisted' = lastProcessedTimestamp'
          /\ (a.pc = "save" /\ Moved(a)) => persisted' = a.saveVal ]_vars

\* The attempt of activation a ends in the catch block in this step.
Fails(a) ==
    \/ FindOneRejects(a)
    \/ InitSaveRejects(a)
    \/ SaveRejects(a)
    \/ HandlerThrows(a)

\* C7: when the last retry of a chain fails, the flag is released and both
\* cursors are what they were when the chain began (stated for a chain that
\* began after the first run, with the cursor set).
C7_ExhaustedChainLeavesCursor ==
    [][ \A a \in InFlight :
          (a.retryCount = 3 /\ a.chainCursor > 0 /\ Fails(a)) =>
             /\ isPolling' = FALSE
             /\ persisted' = a.chainStored
             /\ lastProcessedTimestamp' = a.chainCursor ]_vars

\* C8: after the event source went down with the cursor at c, the cursor
\* stays at or above c and passes no event later than c that was not handed
\* to its handler.
C8_OutageLosesNothing ==
    outageCursor > 0 =>
       /\ lastProcessedTimestamp >= outageCursor
       /\ \A i \in DOMAIN ledger :
             (ledger[i].ts > outageCursor /\ ledger[i].ts <= lastProcessedTimestamp)
             => i \in handed

\* C9: the cursor never advances past an event whose collection-wide
\* broadcast was dropped by a failed member or subscription lookup.
C9_NoAdvancePastMissedBroadcast ==
    \A i \in BroadcastMissed : lastProcessedTimestamp < ledger[i].ts

\* No query is issued and no handler runs in this step.
NoQueryNoHandler ==
    /\ handed' = handed
    /\ bcastSent' = bcastSent
    /\ \A f \in NewFrames : f.pc \notin { "query", "handlers", "save" }

\* C10: the first run loads the persisted cursor or, if there is none, sets
\* the cursor to the clock and persists it; either way it ends without a
\* query or a handler call and with the flag released.
C10_FirstRun ==
    [][ \A a \in InFlight :
          /\ FindOneResolves(a) =>
                /\ NoQueryNoHandler
                /\ persisted > 0 =>
                      /\ lastProcessedTimestamp' = persisted
                      /\ NewFrames = {}
                      /\ isPolling' = FALSE
                /\ persisted = 0 =>
                      /\ lastProcessedTimestamp' = now
                      /\ \E f \in NewFrames :
                            f.pc = "initSave" /\ f.saveVal = now
          /\ InitSaveResolves(a) =>
                /\ NoQueryNoHandler
                /\ persisted' = a.saveVal
                /\ NewFrames = {}
                /\ isPolling' = FALSE ]_vars

\* A first run on an empty checkpoint store has ended: the cursor is the
\* clock, it is persisted, the flag is clear, and the event already in the
\* ledger was neither queried nor handed to a handler.
C10_Witness ==
    /\ started
    /\ acts = EmptyBag
    /\ timers = EmptyBag
    /\ ~ isPolling
    /\ now > 1
    /\ lastProcessedTimestamp = now
    /\ persisted = now
    /\ ledger # << >>
    /\ handed = {}

\* -------------------------------------------------- scheduler properties
\* C11: between two cleanups no key has more than one notification
\* dispatch, however the evaluator runs interleave.
C11_OneDispatchPerKey == \A k \in DOMAIN dispatched : dispatched[k] <= 1

\* C12: a key enters the registry only in a step whose sendNotification
\* call reported a recipient sent.
C12_KeyOnlyAfterSuccess ==
    [][ (~ (sentNotifications' \subseteq sentNotifications))
           => lastOutcome' = "sent" ]_schedVars

\* C13: while timer callbacks do not overlap, every key is dispatched at
\* most once between two cleanups, a condition that holds has been
\* dispatched exactly once as soon as a goal run of the epoch has gone
\* through every goal, and a cleanup empties the registry.
C13_OncePerEpoch ==
    [][ /\ (~ overlap') =>
              /\ \A k \in DOMAIN dispatched' : dispatched'[k] <= 1
              /\ fullScan' =>
                    \A g \in DOMAIN goals, c \in GoalConditions :
                       GoalConditionHolds(goals[g], c)
                          => dispatched'[GoalKey(g, c)] = 1
        /\ (resets' # resets) => sentNotifications' = {} ]_schedVars

\* A goal at 52% has been evaluated by three callbacks that did not overlap
\* and its 50% milestone was dispatched once.
C13_Witness ==
    /\ ticks = 3
    /\ ~ overlap
    /\ resets = 0
    /\ runs = EmptyBag
    /\ fullScan
    /\ calculateProgress(goals[1].currentAmount, goals[1].goalAmount) = 52
    /\ dispatched[<< "goal_milestone", 1, 50 >>] = 1

\* ------------------------------------------------- dispatcher properties
\* The loop is at an address whose stored preferences have pushEnabled false.
AtPushDisabled ==
    /\ sendPc = "loop"
    /\ store[userAddresses[index].id].present
    /\ store[userAddresses[index].id].preferences.pushEnabled = "false"

\* C14: an address whose stored pushEnabled is false is counted as failed,
\* not as sent, and webpush.sendNotification is not invoked for it,
\* whatever its per-type flag; no transport call is ever for such an address.
C14_PushDisabledFails ==
    [][ /\ AtPushDisabled =>
              /\ results'.failed = results.failed + 1
              /\ results'.sent = results.sent
              /\ transportCalls' = transportCalls
        /\ \A k \in DOMAIN transportCalls' :
              LET doc == store[userAddresses'[transportCalls'[k]].id]
              IN  ~ (doc.present /\ doc.preferences.pushEnabled = "false")
      ]_pushVars

\* A call with the type flag set to true for a recipient who has pushEnabled
\* false has returned: one failure, nothing sent, no transport call.
C14_Witness ==
    /\ sendPc = "done"
    /\ isConfigured
    /\ payloadType = "circle_member_payout"
    /\ Len(userAddresses) = 1
    /\ store[userAddresses[1].id].present
    /\ store[userAddresses[1].id].preferences =
          [ pushEnabled |-> "false", circleMemberPayout |-> "true" ]
    /\ results.failed = 1
    /\ results.sent = 0
    /\ transportCalls = << >>

\* The loop is at an address for which getMany returned a subscription (so
\* its pushEnabled is not false) and the push service is configured.
AtSubscribed ==
    /\ sendPc = "loop"
    /\ isConfigured
    /\ Found(userAddresses[index]) # {}

\* C15: for a recipient with pushEnabled not false the transport is invoked
\* unless the payload type has a mapped flag and that flag is false; an
\* unset flag and a type without a mapped flag both go to the transport.
C15_FailOpen ==
    [][ AtSubscribed =>
          LET subscription == CHOOSE sub \in Found(userAddresses[index]) : TRUE
              key == NOTIFICATION_PREFERENCE_KEYS(payloadType)
              explicitlyOff ==
                  key # "none" /\ subscription.preferences[key] = "false"
          IN  /\ subscription.preferences.pushEnabled # "false"
              /\ (transportCalls' = Append(transportCalls, index))
                    <=> ~ explicitlyOff
              /\ explicitlyOff =>
                    /\ transportCalls' = transportCalls
                    /\ results'.failed = results.failed + 1
      ]_pushVars

\* The transport has been invoked for a recipient whose mapped flag and
\* pushEnabled are both unset, and for a type without a mapped flag whose
\* recipient has circleMemberPayout false.
C15_Witness ==
    /\ sendPc = "done"
    /\ Len(transportCalls) = 1
    /\ LET doc == store[userAddresses[transportCalls[1]].id]
       IN  \/ /\ payloadType = "circle_member_payout"
              /\ doc.present
              /\ doc.preferences = NoPreferences
              /\ results.sent = 1
           \/ /\ payloadType = "circle_payout"
              /\ doc.present
              /\ doc.preferences.circleMemberPayout = "false"
              /\ results.sent = 1

\* C16: an address with no stored subscription is counted as failed and
\* gets an entry of its own in results.errors whose text is neither the
\* disabled-preference text nor a transport error.
C16_NoSubscriptionReported ==
    [][ ( /\ sendPc = "loop"
          /\ ~ store[userAddresses[index].id].present
          /\ Found(userAddresses[index]) = {} )
        => /\ results'.failed = results.failed + 1
           /\ Len(results'.errors) = Len(results.errors) + 1
           /\ LET e == results'.errors[Len(results'.errors)]
              IN  /\ e.userAddress = toLowerCase(userAddresses[index])
                  /\ e.error \notin { "Notification type disabled by user",
                                      TransportError }
      ]_pushVars

\* Transport invocations of the call made for user u.
InvocationsFor(u) ==
    Cardinality({ k \in DOMAIN transportCalls :
                    userAddresses[transportCalls[k]].id = u })

\* u is a recipient of the call and isNotificationEnabled holds for the
\* subscription getMany returned for it.
EligibleRecipient(u) ==
    /\ \E i \in DOMAIN userAddresses : userAddresses[i].id = u
    /\ \E sub \in subscriptions :
          /\ sub.userAddress.id = u
          /\ isNotificationEnabled(sub.preferences, payloadType)

\* C17: when a call of the configured dispatcher has returned, the transport
\* was invoked once for each eligible recipient and never for another, and
\* every address of the list was gone through once (sent + failed).
C17_OncePerEligibleRecipient ==
    (sendPc = "done" /\ isConfigured) =>
        /\ \A u \in Users :
              InvocationsFor(u) = IF EligibleRecipient(u) THEN 1 ELSE 0
        /\ results.sent + results.failed = Len(userAddresses)

\* ---------------------------------------------------- fan-out properties
\* The accounts of the circle: joined participants and creator.
CircleIds ==
    { a.id : a \in circleJoineds }
        \cup (IF circleCreator # NoAddress THEN { circleCreator.id } ELSE {})

\* Calls made so far with the given title and priority whose address list
\* names account u.
CallsTo(u, title, priority) ==
    { k \in DOMAIN sent :
        /\ sent[k].title = title
        /\ sent[k].priority = priority
        /\ \E a \in sent[k].to : a.id = u }

\* C18: when processPayoutEvents is through with a payout to account 1 in a
\* circle whose accounts are 1, 2 and 3, there is one high-priority "Payment
\* Received" call to account 1, one medium-priority "Circle Payout
\* Completed" call naming account 2 and one naming account 3, and account 1
\* is named by no other call.
C18_PayoutExample ==
    ( /\ fanPc = "done"
      /\ event.kind = "processPayoutEvents"
      /\ event.user.id = 1
      /\ CircleIds = { 1, 2, 3 } )
    => /\ Cardinality(CallsTo(1, "Payment Received!", "high")) = 1
       /\ Cardinality(CallsTo(2, "Circle Payout Completed", "medium")) = 1
       /\ Cardinality(CallsTo(3, "Circle Payout Completed", "medium")) = 1
       /\ Cardinality({ k \in DOMAIN sent :
                          \E a \in sent[k].to : a.id = 1 }) = 1

\* C19: the address list of a broadcast call never names the account of the
\* event's user, in whatever letter case the ledger and the event spell it.
C19_SelfExcluded ==
    \A k \in DOMAIN sent :
        sent[k].role = "broadcast"
            => \A a \in sent[k].to : a.id # event.user.id

\* A handler has broadcast for an event whose user id is in upper case and
\* belongs to an account of the circle.
C19_Witness ==
    /\ fanPc = "done"
    /\ event.kind = "processCollateralWithdrawnEvents"
    /\ event.user.upper
    /\ event.user.id \in CircleIds
    /\ \E k \in DOMAIN sent :
          sent[k].role = "broadcast" /\ Cardinality(sent[k].to) = 2

\* C20: what getCircleMembers returns when its request is answered names
\* exactly the joined accounts and the creator, names the creator when the
\* ledger reports one, and names no account by two addresses.
C20_MembersAreUnion ==
    resolved = "ok" =>
        /\ { m.id : m \in members } = CircleIds
        /\ circleCreator # NoAddress
              => \E m \in members : m.id = circleCreator.id
        /\ \A m1, m2 \in members : m1.id = m2.id => m1 = m2

\* Members were resolved for a circle that reports one account in both
\* letter cases and an upper-case creator who never joined.
C20_Witness ==
    /\ resolved = "ok"
    /\ circleCreator # NoAddress
    /\ circleCreator.upper
    /\ \A a \in circleJoineds : a.id # circleCreator.id
    /\ \E a, b \in circleJoineds : a.id = b.id /\ a # b
    /\ Cardinality(members) = 2

\* C21: no handler calls sendNotification with an empty address list.
C21_NoCallForEmptyAudience ==
    \A k \in DOMAIN sent : sent[k].to # {}

\* The event the loop took last belongs to a handler that reads a user id,
\* and the id is missing.
MissingUserId ==
    /\ event.kind \in AllHandlers \ AllMemberHandlers
    /\ event.user = NoAddress

\* C22: for an event whose user id is missing the handler makes no
\* sendNotification call and no getCircleMembers request, and is through
\* with the event at once, ready for the next event of the batch.
C22_MissingIdSkipped ==
    MissingUserId =>
        /\ fanPc = "done"
        /\ sent = << >>
        /\ resolved = "none"

\* processPayoutEvents skipped an event without user id and then notified
\* the user and the other members for the next event of the batch.
C22_Witness ==
    /\ event.kind = "processPayoutEvents"
    /\ skipped = 1
    /\ taken = 2
    /\ fanPc = "done"
    /\ Len(sent) = 2

\* C23: when a handler that notifies the user and the other members is
\* through with an event, it has made the call to the user, it has made the
\* separate call to the other members exactly if there are any, and it has
\* looked the members up, whatever the two calls reported.
C23_CallsIndependent ==
    ( /\ fanPc = "done"
      /\ event.kind \in WithDirect
      /\ event.user # NoAddress )
    => /\ Cardinality({ k \in DOMAIN sent : sent[k].role = "direct" }) = 1
       /\ resolved # "none"
       /\ Cardinality({ k \in DOMAIN sent : sent[k].role = "broadcast" }) =
             IF OthersToNotify(members, event.user) # {} THEN 1 ELSE 0

\* The call to the user reported nobody sent and the broadcast to the other
\* members was made all the same.
C23_Witness ==
    /\ fanPc = "done"
    /\ event.kind = "processMemberForfeitedEvents"
    /\ Len(sent) = 2
    /\ sent[1].role = "direct"
    /\ sent[1].result = "noneSent"
    /\ sent[2].role = "broadcast"
    /\ sent[2].result = "sent"

\* ------------------------------------------- scheduler properties, continued
\* C27: the standard reminder and the final warning of a circle and round
\* have different keys, and each of the two keys is dispatched at most once
\* between two cleanups.
C27_TwoRemindersOnceEach ==
    \A i \in DOMAIN circles :
        /\ << "circle_contribution_due", i, 0 >>
              # << "circle_late_payment_warning", i, 0 >>
        /\ dispatched[<< "circle_contribution_due", i, 0 >>] <= 1
        /\ dispatched[<< "circle_late_payment_warning", i, 0 >>] <= 1

\* C28: no evaluator run ends with an exception that nothing catches.
C28_NothingEscapes == lastOutcome # "unhandled"

\* C29: a step either keeps every key of the registry or is the cleanup,
\* which empties it.
C29_KeysKept ==
    [][ \/ sentNotifications \subseteq sentNotifications'
        \/ resets' = resets + 1 /\ sentNotifications' = {} ]_schedVars

\* Runs that overlapped have inserted a goal key and a circle key, and both
\* are in the registry.
C29_Witness ==
    /\ overlap
    /\ resets = 0
    /\ \E k1, k2 \in sentNotifications :
          /\ k1[1] \in { "goal_2days", "goal_1day", "goal_milestone",
                         "goal_completed" }
          /\ k2[1] \in { "circle_contribution_due",
                         "circle_late_payment_warning" }

\* ====================================================== reminder evaluation
\* One row at a time through the conditions of checkGoalDeadlines and of
\* checkCircleDeadlines, with an empty registry: what the evaluator asks the
\* dispatcher to send for that row.

\* `type` of the dispatch of goal condition c.
GoalType(c) ==
    CASE c = 1 -> "goal_deadline_2days"
      [] c = 2 -> "goal_deadline_1day"
      [] c \in 3 .. 5 -> "goal_milestone"
      [] OTHER -> "goal_completed"

\* `priority` of the dispatch of goal condition c.
GoalPriority(c) ==
    CASE c = 1 -> "medium"
      [] c = 2 -> "high"
      [] c \in 3 .. 5 -> "low"
      [] OTHER -> "medium"

\* Decimal digit strings, most significant digit first, stand for the
\* amount strings and for BigInt values: 10^18 is beyond the integers of the
\* model checker.  The character "-" is written -1.
Zeros(n) == [ i \in 1 .. n |-> 0 ]

Minus == << -1 >>

IsNegative(str) == str # << >> /\ Head(str) = -1

Abs(str) == IF IsNegative(str) THEN Tail(str) ELSE str

\* The sign of a BigInt in its decimal form: zero has none.
WithSign(negative, magnitude) ==
    IF negative /\ magnitude # << 0 >> THEN Minus \o magnitude ELSE magnitude

\* The value of a string of digits, written without leading zeros.
RECURSIVE Magnitude(_)
Magnitude(str) ==
    IF Len(str) > 1 /\ Head(str) = 0 THEN Magnitude(Tail(str))
    ELSE IF str = << >> THEN << 0 >>
    ELSE str

\* `BigInt(str)` of a string of digits with or without a sign, and
\* `value.toString()`.
BigInt(str) == WithSign(IsNegative(str), Magnitude(Abs(str)))

\* `n.toString()` of a natural number of the model.
RECURSIVE Digits(_)
Digits(n) == IF n < 10 THEN << n >> ELSE Digits(n \div 10) \o << n % 10 >>

\* `decimals = 18`
Decimals == 18

\* `amount / divisor` with divisor = BigInt(10 ** decimals) = 10^decimals
\* (10 ** 18 is exact in a double): the quotient drops the last `decimals`
\* digits of the magnitude, and BigInt division rounds toward zero.
Whole(amount, decimals) ==
    LET m == Abs(amount)
    IN  WithSign(IsNegative(amount),
                 IF Len(m) <= decimals THEN << 0 >>
                 ELSE SubSeq(m, 1, Len(m) - decimals))

\* `amount % divisor`: the value of the last `decimals` digits, with the
\* sign of the dividend.
Fraction(amount, decimals) ==
    LET m == Abs(amount)
    IN  WithSign(IsNegative(amount),
                 IF Len(m) <= decimals THEN m
                 ELSE Magnitude(SubSeq(m, Len(m) - decimals + 1, Len(m))))

\* `str.padStart(len, "0")`
padStart(str, len) ==
    IF Len(str) >= len THEN str ELSE Zeros(len - Len(str)) \o str

\* `str.slice(0, 2)`
slice(str) == SubSeq(str, 1, IF Len(str) < 2 THEN Len(str) ELSE 2)

\* formatAmount without the zero padding of the fraction.
formatAmount_NoPad(amountWei) ==
    LET amount == BigInt(amountWei)
    IN  [ whole       |-> Whole(amount, Decimals),
          fractionStr |-> slice(Fraction(amount, Decimals)) ]

\* formatAmount: `$${whole}.${fractionStr}`, as its two digit strings.
formatAmount(amountWei) ==
    LET amount == BigInt(amountWei)
    IN  [ whole       |-> Whole(amount, Decimals),
          fractionStr |-> slice(padStart(Fraction(amount, Decimals),
                                         Decimals)) ]

\* The amounts of a goal row count hundredths of a token: n stands for the
\* string of n * 10^16.
AmountString(n) == IF n = 0 THEN << 0 >> ELSE Digits(n) \o Zeros(Decimals - 2)

\* `(BigInt(goal.goalAmount) - BigInt(goal.currentAmount)).toString()`
Difference(goal) ==
    LET d == goal.goalAmount - goal.currentAmount
    IN  WithSign(d < 0, AmountString(IF d < 0 THEN 0 - d ELSE d))

\* The amounts the message of condition c renders with formatAmount: the
\* difference of goal and current amount in the two deadline reminders,
\* none in the others.
Remaining(goal, c) ==
    IF c \in 1 .. 2 THEN { formatAmount(Difference(goal)) } ELSE {}

\* The dispatches one pass of the loop body makes for a goal whose keys are
\* not in the registry.
GoalReminders(goal) ==
    { [ cond |-> c, key |-> GoalKey(1, c), type |-> GoalType(c),
        priority |-> GoalPriority(c), amounts |-> Remaining(goal, c) ] :
      c \in { d \in 1 .. 6 : GoalConditionHolds(goal, d) } }

\* `circles(where: { state: 3 })`
ActiveState == 3

\* `membersByCircle.get(circle.circleId) || []`: the circleJoineds rows.
memberAddresses(circle) == circle.joined

\* `contributionsByCircleRound.get(`${circleId}_${currentRound}`)`
contributedAddresses(circle) ==
    { c.user : c \in { x \in circle.contributions :
                         x.round = circle.currentRound } }

\* `memberAddresses.filter(addr => !contributedAddresses.has(addr))`
pendingMembers(circle) ==
    { addr \in memberAddresses(circle) :
        addr \notin contributedAddresses(circle) }

\* `notificationType` and `priority` of the circle reminder.
CircleType(circle) ==
    IF IsFinalWarning(circle) THEN "late_payment_warning"
                              ELSE "contribution_due"

CirclePriority(circle) == IF IsFinalWarning(circle) THEN "high" ELSE "medium"

\* The dispatch checkCircleDeadlines makes for a circle whose key is not in
\* the registry: none unless the query returns the circle, the filter keeps
\* it and somebody is pending.
CircleReminders(circle) ==
    IF /\ circle.state = ActiveState
       /\ CircleInWindow(circle)
       /\ pendingMembers(circle) # {}
    THEN { [ key |-> << CircleType(circle), circle.currentRound >>,
             type |-> CircleType(circle),
             priority |-> CirclePriority(circle),
             to |-> pendingMembers(circle) ] }
    ELSE {}

\* Amounts W * 10^18 + CC * 10^16 + R as the ledger writes them: the digits
\* of W, of the two-digit CC and of the sixteen-digit R, without leading
\* zeros.
EvalWholes == { << >>, << 1 >>, << 7 >>, << 1, 2 >>, << 9, 9, 9 >> }
EvalCents  == { << 0, 0 >>, << 0, 5 >>, << 1, 0 >>, << 5, 0 >>, << 9, 9 >> }
EvalRests  == { Zeros(16), [ i \in 1 .. 16 |-> 9 ],
                Zeros(15) \o << 1 >>, << 5 >> \o Zeros(15) }

EvalAmounts ==
    { [ whole |-> w, cents |-> c, rest |-> r,
        amountWei |-> BigInt(w \o c \o r) ] :
      w \in EvalWholes, c \in EvalCents, r \in EvalRests }

\* Goal rows: deadlines on both sides of now, of one day and of two days
\* (now is 1), amounts on both sides of every progress threshold.
EvalDeadlines == { 0, 1, 2, 86400, 86401, 86402, 172800, 172801, 172802 }
EvalCurrents  == { 0, 24, 25, 29, 30, 49, 50, 54, 55, 75, 79, 80, 99, 100,
                   149, 150, 200 }
EvalTargets   == { 0, 100, 200 }

EvalGoals ==
    [ currentAmount : EvalCurrents, goalAmount : EvalTargets,
      deadline : EvalDeadlines ]

\* Circle rows: active or not, no deadline, a deadline past, within the
\* hour, at the hour, within the day, at the day and beyond; two accounts
\* that may have joined, a creator who may be one of them, contributions of
\* the creator and of an account in the current round and in the one before.
EvalCircleDeadlines == { 0, 1, 1801, 3601, 3602, 86401, 86402 }

EvalCircles ==
    [ state : { 1, ActiveState }, nextDeadline : EvalCircleDeadlines,
      currentRound : { 2 }, joined : SUBSET { 1, 2 }, creator : { 1, 3 },
      contributions : SUBSET ({ 1, 3 } \X { 1, 2 }) ]

\* The rows as the batch query returns them: contribution rows are records.
ContributionRows(pairs) == { [ user |-> q[1], round |-> q[2] ] : q \in pairs }

EvalInit ==
    /\ PollIdle
    /\ SchedIdle
    /\ PushIdle
    /\ FanIdle
    /\ reminders = {}
    /\ formatted = NoText
    /\ \/ /\ evalPc = "goal"
          /\ evalGoal \in EvalGoals
          /\ evalCircle = NoCircle
          /\ evalAmount = NoAmount
       \/ /\ evalPc = "amount"
          /\ evalGoal = NoGoal
          /\ evalCircle = NoCircle
          /\ evalAmount \in EvalAmounts
       \/ /\ evalPc = "circle"
          /\ evalGoal = NoGoal
          /\ evalAmount = NoAmount
          /\ \E c \in EvalCircles :
                evalCircle = [ c EXCEPT
                    !.contributions = ContributionRows(c.contributions) ]

\* The body of the for loop of checkGoalDeadlines on one goal.
EvaluateGoal ==
    /\ evalPc = "goal"
    /\ reminders' = GoalReminders(evalGoal)
    /\ evalPc' = "goalDone"
    /\ UNCHANGED << evalGoal, evalCircle, evalAmount, formatted >>

\* checkCircleDeadlines on one circle of the ledger.
EvaluateCircle ==
    /\ evalPc = "circle"
    /\ reminders' = CircleReminders(evalCircle)
    /\ evalPc' = "circleDone"
    /\ UNCHANGED << evalGoal, evalCircle, evalAmount, formatted >>

\* formatAmount(amountWei) as a handler or an evaluator calls it.
FormatAmount ==
    /\ evalPc = "amount"
    /\ formatted' = formatAmount(evalAmount.amountWei)
    /\ evalPc' = "amountDone"
    /\ UNCHANGED << evalGoal, evalCircle, reminders, evalAmount >>

nonEvalVars == << vars, schedVars, pushVars, fanVars >>

EvalNext ==
    \/ EvaluateGoal /\ UNCHANGED nonEvalVars
    \/ EvaluateCircle /\ UNCHANGED nonEvalVars
    \/ FormatAmount /\ UNCHANGED nonEvalVars

EvalSpec == EvalInit /\ [][EvalNext]_<< vars, nonPollVars >>

\* ------------------------------------------------------------ properties

\* C24: with d = (deadline - now) / 86400, the goal_deadline_2days reminder
\* (medium, key goal_2days) is asked for exactly when 1 < d <= 2 and the
\* goal_deadline_1day reminder (high, key goal_1day) exactly when
\* 0 < d <= 1; never both for one goal, and neither when d <= 0 or d > 2.
C24_DeadlineWindows ==
    evalPc = "goalDone" =>
        LET t       == evalGoal.deadline - now
            twoDays == { r \in reminders : r.type = "goal_deadline_2days" }
            oneDay  == { r \in reminders : r.type = "goal_deadline_1day" }
        IN  /\ twoDays # {} <=> (86400 < t /\ t <= 172800)
            /\ oneDay # {} <=> (0 < t /\ t <= 86400)
            /\ \A r \in twoDays :
                  r.priority = "medium" /\ r.key = << "goal_2days", 1, 0 >>
            /\ \A r \in oneDay :
                  r.priority = "high" /\ r.key = << "goal_1day", 1, 0 >>
            /\ twoDays = {} \/ oneDay = {}
            /\ (t <= 0 \/ t > 172800) => twoDays \cup oneDay = {}

\* A goal exactly one day from its deadline has been evaluated and got the
\* one-day reminder.
C24_Witness ==
    /\ evalPc = "goalDone"
    /\ evalGoal.deadline - now = 86400
    /\ \E r \in reminders : r.type = "goal_deadline_1day"

\* C25: progress is floor(current * 100 / target), 0 for a zero target; the
\* low-priority milestone m of 25, 50, 75 is asked for exactly when
\* m <= progress < m + 5, so at most one per goal; the medium-priority
\* completion notice exactly when progress >= 100; and
\* calculateProgress(50, 200) = 25.
C25_ProgressBands ==
    /\ calculateProgress(50, 200) = 25
    /\ \A x \in EvalCurrents : calculateProgress(x, 0) = 0
    /\ evalPc = "goalDone" =>
        LET c == evalGoal.currentAmount
            t == evalGoal.goalAmount
            p == IF t = 0 THEN 0
                 ELSE CHOOSE q \in 0 .. 200 :
                        q * t <= c * 100 /\ c * 100 < (q + 1) * t
            reached   == { r \in reminders : r.type = "goal_milestone" }
            completed == { r \in reminders : r.type = "goal_completed" }
        IN  /\ \A m \in { 25, 50, 75 } :
                  (\E r \in reached : r.key = << "goal_milestone", 1, m >>)
                      <=> (m <= p /\ p < m + 5)
            /\ \A r \in reached : r.priority = "low"
            /\ Cardinality(reached) <= 1
            /\ completed # {} <=> p >= 100
            /\ \A r \in completed : r.priority = "medium"

\* The goal with 50 of 200 saved has been evaluated and got the 25%
\* milestone.
C25_Witness ==
    /\ evalPc = "goalDone"
    /\ evalGoal.currentAmount = 50
    /\ evalGoal.goalAmount = 200
    /\ \E r \in reminders : r.key = << "goal_milestone", 1, 25 >>

\* C26: a circle reminder is asked for only for a circle in the active
\* state whose deadline is within the next 24 hours and not past; it goes
\* to exactly the members of the circle, joined accounts and creator, with
\* no contribution in the current round; and a circle with nobody pending
\* gets no reminder.
C26_PendingMembersOnly ==
    evalPc = "circleDone" =>
        LET t       == evalCircle.nextDeadline - now
            paid    == { x.user : x \in { y \in evalCircle.contributions :
                                   y.round = evalCircle.currentRound } }
            pending == (evalCircle.joined \cup { evalCircle.creator }) \ paid
        IN  /\ reminders # {} =>
                  evalCircle.state = 3 /\ 0 < t /\ t <= 86400
            /\ \A r \in reminders : r.to = pending
            /\ pending = {} => reminders = {}

\* C30: every payload type a fan-out handler or the scheduler hands to the
\* dispatcher has an entry in NOTIFICATION_PREFERENCE_KEYS.
C30_MappingTotal ==
    /\ \A k \in DOMAIN sent :
          NOTIFICATION_PREFERENCE_KEYS(sent[k].type) # "none"
    /\ \A r \in reminders : NOTIFICATION_PREFERENCE_KEYS(r.type) # "none"

\* C31: every event variant has an eventType that POST /simulate-event
\* routes to the handler of that variant, as a batch of one event; a request
\* is answered 400 with no handler invoked exactly when its eventType has no
\* handler.
C31_SimulateRoutesEveryVariant ==
    /\ \A h \in AllHandlers : \E t \in SimEventTypes : procFileName(t) = h
    /\ simEventType # "none" =>
          IF simStatus = 400
          THEN event.kind = "none" /\ taken = 0 /\ sent = << >>
          ELSE /\ simEventType \in DOMAIN functionMap
               /\ event.kind = functionMap[simEventType]
               /\ taken = 1

\* C32: formatAmount renders a = W * 10^18 + CC * 10^16 + R, R < 10^16, as
\* "$W.CC": the whole part and the first two of the eighteen fraction
\* digits, cut off and never rounded; 1500000000000000000 gives $1.50 and
\* 0 gives $0.00.
C32_FormatAmount ==
    /\ formatAmount(<< 1, 5 >> \o Zeros(17))
          = [ whole |-> << 1 >>, fractionStr |-> << 5, 0 >> ]
    /\ formatAmount(<< 0 >>) = [ whole |-> << 0 >>, fractionStr |-> << 0, 0 >> ]
    /\ evalPc = "amountDone" =>
          /\ formatted.whole = IF evalAmount.whole = << >> THEN << 0 >>
                               ELSE evalAmount.whole
          /\ formatted.fractionStr = evalAmount.cents

\* An amount below one unit whose fraction starts with a zero, followed by
\* nines, has been rendered: 0.05999... gives $0.05.
C32_Witness ==
    /\ evalPc = "amountDone"
    /\ evalAmount.whole = << >>
    /\ evalAmount.cents = << 0, 5 >>
    /\ evalAmount.rest = [ i \in 1 .. 16 |-> 9 ]
    /\ formatted = [ whole |-> << 0 >>, fractionStr |-> << 0, 5 >> ]

\* C33: an attempt with retry count k that ends in the catch block
\* schedules exactly one retry with count k + 1 after 2^k seconds when
\* k < 3 and none when k = 3; so no attempt and no pending retry ever has a
\* count above 3, and a chain has at most four attempts.
C33_BoundedBackoff ==
    [][ /\ \A a \in InFlight :
              Fails(a) =>
                 timers' =
                    IF a.retryCount < 3
                    THEN timers (+) SetToBag({
                            [ retryCount  |-> a.retryCount + 1,
                              delay       |-> Pow2(a.retryCount) * 1000,
                              chainCursor |-> a.chainCursor,
                              chainStored |-> a.chainStored ] })
                    ELSE timers
        /\ \A f \in BagToSet(acts') : f.retryCount \in 0 .. 3
        /\ \A t \in BagToSet(timers') : t.retryCount \in 1 .. 3 ]_vars

\* The fourth attempt of a chain is running: three attempts failed and
\* three retries were scheduled and fired.
C33_Witness == \E a \in InFlight : a.retryCount = 3

C36_CursorsAgreeAtRest ==
    (acts = EmptyBag /\ timers = EmptyBag /\ lastProcessedTimestamp # 0)
        => persisted = lastProcessedTimestamp

\* C37: a cycle whose last batch is processed without an exception leaves
\* the cursor at or above the timestamp of every event of that batch.
C37_CursorCoversHanded ==
    [][ \A a \in InFlight :
          (a.pc = "handlers" /\ ReachesCheckpoint(a)) =>
             \A i \in a.events : lastProcessedTimestamp' >= ledger[i].ts ]_vars

\* C34: the result of a sendNotification call has sent + failed equal to
\* the number of entries of the address list and no more error strings than
\* failures; while the loop runs the same holds of the entries gone through.
C34_ResultAccountsForAll ==
    /\ sendPc = "done" =>
          /\ results.sent + results.failed = Len(userAddresses)
          /\ Len(results.errors) <= results.failed
    /\ sendPc \in { "loop", "transport" } =>
          /\ results.sent + results.failed = index - 1
          /\ Len(results.errors) <= results.failed

\* A call of the configured dispatcher with two addresses has returned:
\* one had no subscription (a failure without an error string), the
\* transport rejected the other (a failure with one).
C34_Witness ==
    /\ sendPc = "done"
    /\ isConfigured
    /\ Len(userAddresses) = 2
    /\ Len(transportCalls) = 1
    /\ results.sent = 0
    /\ results.failed = 2
    /\ Len(results.errors) = 1

\* C40: a transport failure with status 404 or 410 is counted as failed with
\* an error string, and no later call invokes the transport for that
\* recipient; a failure with another status issues no removal and leaves
\* the store as it is.
C40_GoneSubscriptionPruned ==
    [][ /\ transportReturns("gone") =>
              /\ results'.failed = results.failed + 1
              /\ Len(results'.errors) = Len(results.errors) + 1
        /\ transportReturns("rejected") =>
              /\ store' = store
              /\ removals' = removals
        /\ \A k \in DOMAIN transportCalls' :
              LET u == userAddresses'[transportCalls'[k]].id
              IN  gone'[u] = 0 \/ gone'[u] = calls' ]_pushVars

\* C39: the remaining amount a goal-deadline reminder renders, goal amount
\* minus current amount, carries no minus sign: it is never negative, also
\* for a goal whose current amount is above its goal amount.
C39_RemainingNonNegative ==
    evalPc = "goalDone" =>
        \A r \in reminders :
            r.type \in { "goal_deadline_2days", "goal_deadline_1day" } =>
                \A a \in r.amounts :
                    /\ \A k \in DOMAIN a.whole : a.whole[k] >= 0
                    /\ \A k \in DOMAIN a.fractionStr : a.fractionStr[k] >= 0

\* C38: with an event source and stores that respond, the cursor passes
\* every batch the loop fetches: an event a cycle has fetched is, from some
\* point on, at or below lastProcessedTimestamp, also when the handler of
\* an event of the batch raises on every attempt.
C38_CursorPassesEveryBatch ==
    \A i \in 1 .. MaxEvents :
        [](  (\E a \in InFlight : i \in a.events)
              => <>(/\ i \in DOMAIN ledger
                    /\ lastProcessedTimestamp >= ledger[i].ts))

====
